---- MODULE Spec2Model ----
(***************************************************************************)
(* Model of the DFS cluster of verschmelzen/dfs: the name node's           *)
(* membership table (members.py), its heartbeat worker and dispatcher      *)
(* (name_node.py), and the data nodes' virtual filesystem (data_node.py).  *)
(*                                                                         *)
(* Paths are sequences of segments.  A logical input path is a record      *)
(* [abs, segs]; a host path and a normalised logical path are sequences of *)
(* names.  A filesystem tree is a function from the host paths that exist  *)
(* to their entry (a directory, or a file with its bytes).                 *)
(***************************************************************************)
EXTENDS Integers, Sequences, FiniteSets, TLC

\* ------------------------------------------------------------------ bounds
\* How many add_node calls, client mutations, reachability changes of data
\* nodes and heartbeat ticks one behaviour may hold.
MaxJoins == 1
MaxOps == 1
MaxFlips == 2
MaxTicks == 2

\* ------------------------------------------------------------- the cluster
NEW_ == "new"
ALIVE == "alive"
DEAD == "dead"

None == "<None>"

\* The data nodes of the model: each has its generated id, the source address
\* of its requests, its configured advertise host, public url and fs_root.
DataNodes == {"n1", "n2", "n3"}

NodeId(n) == CASE n = "n1" -> "a1" [] n = "n2" -> "b2" [] OTHER -> "c3"
SourceIp(n) == CASE n = "n1" -> "10.0.0.1" [] n = "n2" -> "10.0.0.2" [] OTHER -> "10.0.0.3"
AdvertiseHost(n) == CASE n = "n1" -> "h1" [] n = "n2" -> "h2" [] OTHER -> "h3"
PublicUrl(n) == CASE n = "n1" -> <<"http", "//p1/">> [] n = "n2" -> <<"http", "//p2/">> [] OTHER -> <<"http", "//p3/">>
AdvertisePort == "8180"
\* The configuration of the model's nodes: n1 advertises its port alone, n2
\* also a host, n3 a host and a public url.
HasAdvertiseHost(n) == n # "n1"
HasPublicUrl(n) == n = "n3"
FsRoot(n) == CASE n = "n1" -> <<"srv", "a">> [] n = "n2" -> <<"data">> [] OTHER -> <<"srv", "c">>

\* ------------------------------------------------------------------- paths
Front(s) == SubSeq(s, 1, Len(s) - 1)
Last(s) == s[Len(s)]
IsPrefix(a, b) == Len(a) <= Len(b) /\ SubSeq(b, 1, Len(a)) = a

Abs(segs) == [abs |-> TRUE, segs |-> segs]
Rel(segs) == [abs |-> FALSE, segs |-> segs]

\* os.path.normpath of an absolute path: "." and empty segments are dropped,
\* ".." removes the segment before it and is dropped at the root.
RECURSIVE normpath(_, _)
normpath(segs, acc) ==
    IF segs = <<>> THEN acc
    ELSE LET h == Head(segs) IN
         IF h = "." \/ h = "" THEN normpath(Tail(segs), acc)
         ELSE IF h = ".." THEN normpath(Tail(segs), IF acc = <<>> THEN <<>> ELSE Front(acc))
         ELSE normpath(Tail(segs), Append(acc, h))

\* os.path.join: an absolute part discards everything before it.
RECURSIVE os_path_join(_, _)
os_path_join(first, parts) ==
    IF parts = <<>> THEN first
    ELSE LET p == Head(parts) IN
         os_path_join(IF p.abs THEN p.segs ELSE first \o p.segs, Tail(parts))

path_join(first, parts) == normpath(os_path_join(first, parts), <<>>)

\* ------------------------------------------------------ data node: the VFS
DirEntry == [kind |-> "dir", data |-> ""]
FileEntry(d) == [kind |-> "file", data |-> d]

Exists(tree, p) == p \in DOMAIN tree
IsDir(tree, p) == Exists(tree, p) /\ tree[p].kind = "dir"
IsFile(tree, p) == Exists(tree, p) /\ tree[p].kind = "file"
Below(tree, p) == {q \in DOMAIN tree : IsPrefix(p, q)}
Listdir(tree, p) == {q \in DOMAIN tree : Len(q) = Len(p) + 1 /\ IsPrefix(p, q)}
Without(tree, gone) == [q \in (DOMAIN tree) \ gone |-> tree[q]]
With(tree, p, e) == [q \in (DOMAIN tree) \cup {p} |-> IF q = p THEN e ELSE tree[q]]

\* The state of one data node: its tree on the host and its workdir.
NodeState(tree, workdir) == [tree |-> tree, workdir |-> workdir]

\* The outcome of a call: the exception it ends in ("none" when it returns),
\* its return value and the state it leaves.
Ok(st, ret) == [exc |-> "none", ret |-> ret, st |-> st]
Raise(st, e) == [exc |-> e, ret |-> <<>>, st |-> st]
\* raise CommandError(f'{path} ...'): the text after the path is kept.
CommandError(st, msg) == [exc |-> "CommandError", ret |-> <<msg>>, st |-> st]

\* A resolver that joins fs_root, workdir and path in one step.
_path_to_fs_direct(n, st, path) ==
    normpath(IF path.abs THEN FsRoot(n) \o path.segs ELSE FsRoot(n) \o st.workdir \o path.segs, <<>>)

_path_to_fs(n, st, path) ==
    path_join(FsRoot(n), <<Rel(path_join(<<>>, <<Rel(st.workdir), path>>))>>)

_fs_to_path(n, fs_path) == SubSeq(fs_path, Len(FsRoot(n)) + 1, Len(fs_path))

\* shutil.rmtree of an fs_root that is a regular file raises
\* NotADirectoryError, before anything is created or reset.
DataNode_mkfs(n, st) ==
    IF IsFile(st.tree, FsRoot(n)) THEN Raise(st, "OSError")
    ELSE Ok(NodeState(FsRoot(n) :> DirEntry, <<>>), <<>>)

\* A cd that keeps the path as it was given.
DataNode_cd_raw(n, st, path) ==
    LET fs_path == _path_to_fs(n, st, path) IN
    IF ~Exists(st.tree, fs_path) THEN CommandError(st, "does not exist")
    ELSE IF ~IsDir(st.tree, fs_path) THEN CommandError(st, "is not a dir")
    ELSE Ok(NodeState(st.tree, IF path.abs THEN path.segs ELSE st.workdir \o path.segs), <<>>)

\* A cd that moves before it has looked at the kind of the target.
DataNode_cd_early(n, st, path) ==
    LET fs_path == _path_to_fs(n, st, path) IN
    IF ~Exists(st.tree, fs_path) THEN CommandError(st, "does not exist")
    ELSE IF ~IsDir(st.tree, fs_path)
         THEN CommandError(NodeState(st.tree, _fs_to_path(n, fs_path)), "is not a dir")
    ELSE Ok(NodeState(st.tree, _fs_to_path(n, fs_path)), <<>>)

DataNode_cd(n, st, path) ==
    LET fs_path == _path_to_fs(n, st, path) IN
    IF ~Exists(st.tree, fs_path) THEN CommandError(st, "does not exist")
    ELSE IF ~IsDir(st.tree, fs_path) THEN CommandError(st, "is not a dir")
    ELSE Ok(NodeState(st.tree, _fs_to_path(n, fs_path)), <<>>)

\* os.listdir: the names of the entries, in no order.
DataNode_ls(n, st, path) ==
    LET fs_path == _path_to_fs(n, st, path) IN
    IF ~Exists(st.tree, fs_path) THEN CommandError(st, "does not exist")
    ELSE IF ~IsDir(st.tree, fs_path) THEN CommandError(st, "is not a dir")
    ELSE Ok(st, <<{Last(q) : q \in Listdir(st.tree, fs_path)}>>)

\* os.makedirs creates the missing ancestors too; an ancestor that is a file
\* makes it raise before anything is created.
Ancestors(n, p) == {SubSeq(p, 1, k) : k \in Len(FsRoot(n))..(Len(p) - 1)}
makedirs(n, tree, p) ==
    [q \in (DOMAIN tree) \cup Ancestors(n, p) \cup {p} |->
        IF q \in DOMAIN tree THEN tree[q] ELSE DirEntry]

DataNode_mkdir(n, st, path) ==
    LET fs_path == _path_to_fs(n, st, path) IN
    IF Exists(st.tree, fs_path) THEN Raise(st, "CommandError")
    ELSE IF \E a \in Ancestors(n, fs_path) : IsFile(st.tree, a) THEN Raise(st, "OSError")
    ELSE Ok(NodeState(makedirs(n, st.tree, fs_path), st.workdir), <<>>)

\* An rmdir whose force also skips the check of the kind.
DataNode_rmdir_forced(n, st, path, force) ==
    LET fs_path == _path_to_fs(n, st, path) IN
    IF ~Exists(st.tree, fs_path) THEN CommandError(st, "does not exist")
    ELSE IF ~IsDir(st.tree, fs_path) /\ ~force THEN CommandError(st, "is not a dir")
    ELSE IF fs_path = FsRoot(n) THEN CommandError(st, "Cannot remove root dir")
    ELSE IF Listdir(st.tree, fs_path) # {} /\ ~force THEN CommandError(st, "is not empty")
    ELSE Ok(NodeState(Without(st.tree, Below(st.tree, fs_path)), st.workdir), <<>>)

DataNode_rmdir(n, st, path, force) ==
    LET fs_path == _path_to_fs(n, st, path) IN
    IF ~Exists(st.tree, fs_path) THEN CommandError(st, "does not exist")
    ELSE IF ~IsDir(st.tree, fs_path) THEN CommandError(st, "is not a dir")
    ELSE IF fs_path = FsRoot(n) THEN CommandError(st, "Cannot remove root dir")
    ELSE IF Listdir(st.tree, fs_path) # {} /\ ~force THEN CommandError(st, "is not empty")
    ELSE Ok(NodeState(Without(st.tree, Below(st.tree, fs_path)), st.workdir), <<>>)

\* open(fs_path, mode) for writing: the parent must be a directory and the
\* path itself must not be one.  The parent of fs_root is on the host.
OpenForWrite(n, tree, p) ==
    /\ ~IsDir(tree, p)
    /\ p = FsRoot(n) \/ IsDir(tree, Front(p))

DataNode_touch(n, st, path) ==
    LET fs_path == _path_to_fs(n, st, path) IN
    IF ~OpenForWrite(n, st.tree, fs_path) THEN Raise(st, "OSError")
    ELSE IF Exists(st.tree, fs_path) THEN Ok(st, <<>>)
    ELSE Ok(NodeState(With(st.tree, fs_path, FileEntry("")), st.workdir), <<>>)

DataNode_tee(n, st, path, data) ==
    LET fs_path == _path_to_fs(n, st, path) IN
    IF ~OpenForWrite(n, st.tree, fs_path) THEN Raise(st, "OSError")
    ELSE Ok(NodeState(With(st.tree, fs_path, FileEntry(data)), st.workdir), <<>>)

\* open(fs_path, 'rb') of a directory raises IsADirectoryError.
DataNode_cat(n, st, path) ==
    LET fs_path == _path_to_fs(n, st, path) IN
    IF ~Exists(st.tree, fs_path) THEN CommandError(st, "does not exist")
    ELSE IF IsDir(st.tree, fs_path) THEN Raise(st, "OSError")
    ELSE Ok(st, <<st.tree[fs_path].data>>)

DataNode_rm(n, st, path) ==
    LET fs_path == _path_to_fs(n, st, path) IN
    IF ~Exists(st.tree, fs_path) THEN Raise(st, "CommandError")
    ELSE IF IsDir(st.tree, fs_path) THEN Raise(st, "CommandError")
    ELSE Ok(NodeState(Without(st.tree, {fs_path}), st.workdir), <<>>)

\* The size of a directory and the mode bits are the host's; the model keeps
\* the length of a file and the kind of the entry.
DataNode_stat(n, st, path) ==
    LET fs_path == _path_to_fs(n, st, path) IN
    IF ~Exists(st.tree, fs_path) THEN Raise(st, "CommandError")
    ELSE Ok(st, <<_fs_to_path(n, fs_path), Len(st.tree[fs_path].data), st.tree[fs_path].kind>>)

\* shutil.copy: a destination that is a directory receives the file under the
\* source's base name; copying a file onto itself or copying a directory
\* raises, and so does a destination that cannot be opened for writing.
DataNode_cp(n, st, src, dst) ==
    LET abs_src == _path_to_fs(n, st, src)
        abs_dst == _path_to_fs(n, st, dst)
        real_dst == IF IsDir(st.tree, abs_dst) THEN Append(abs_dst, Last(abs_src)) ELSE abs_dst
    IN
    IF ~Exists(st.tree, abs_src) THEN Raise(st, "CommandError")
    ELSE IF real_dst = abs_src \/ IsDir(st.tree, abs_src) THEN Raise(st, "OSError")
    ELSE IF ~OpenForWrite(n, st.tree, real_dst) THEN Raise(st, "OSError")
    ELSE Ok(NodeState(With(st.tree, real_dst, FileEntry(st.tree[abs_src].data)), st.workdir), <<>>)

\* The tree with everything at and below src moved to dst (missing ancestors
\* of dst created, as copytree's makedirs does).
MoveTree(n, tree, src, dst) ==
    LET moved == Below(tree, src)
        kept == (DOMAIN tree) \ moved
        target(q) == dst \o SubSeq(q, Len(src) + 1, Len(q))
        landed == {target(q) : q \in moved}
    IN [p \in kept \cup Ancestors(n, dst) \cup landed |->
          IF p \in landed THEN tree[CHOOSE q \in moved : target(q) = p]
          ELSE IF p \in kept THEN tree[p]
          ELSE DirEntry]

\* shutil.move: into an existing directory under the source's base name
\* (which must not exist there); os.rename first, and when that fails
\* copytree + rmtree for a directory, copy2 + unlink for a file.
DataNode_mv(n, st, src, dst) ==
    LET abs_src == _path_to_fs(n, st, src)
        abs_dst == _path_to_fs(n, st, dst)
        into == IsDir(st.tree, abs_dst)
        real_dst == IF into THEN Append(abs_dst, Last(abs_src)) ELSE abs_dst
    IN
    IF ~Exists(st.tree, abs_src) THEN Raise(st, "CommandError")
    ELSE IF into /\ abs_src = abs_dst THEN Ok(st, <<>>)
    ELSE IF into /\ Exists(st.tree, real_dst) THEN Raise(st, "OSError")
    ELSE IF real_dst = abs_src THEN Ok(st, <<>>)
    ELSE IF IsDir(st.tree, abs_src) THEN
        IF IsPrefix(abs_src, real_dst) THEN Raise(st, "OSError")
        ELSE IF IsFile(st.tree, real_dst) THEN Raise(st, "OSError")
        ELSE IF \E a \in Ancestors(n, real_dst) : IsFile(st.tree, a) THEN Raise(st, "OSError")
        ELSE Ok(NodeState(MoveTree(n, st.tree, abs_src, real_dst), st.workdir), <<>>)
    ELSE
        IF ~IsDir(st.tree, Front(real_dst)) THEN Raise(st, "OSError")
        ELSE Ok(NodeState(With(Without(st.tree, {abs_src}), real_dst, st.tree[abs_src]),
                          st.workdir), <<>>)

\* package: the archive of fs_root with its entries rooted at "/", here a
\* function from the path below the root to the entry.
package(n, tree) ==
    [rel \in {_fs_to_path(n, q) : q \in Below(tree, FsRoot(n))} |-> tree[FsRoot(n) \o rel]]

\* unpack: every entry of the archive is written under path; what the
\* archive does not name stays.
unpack(pkg, tree, path) ==
    [q \in (DOMAIN tree) \cup {path \o rel : rel \in DOMAIN pkg} |->
        IF \E rel \in DOMAIN pkg : path \o rel = q
        THEN pkg[SubSeq(q, Len(path) + 1, Len(q))]
        ELSE tree[q]]

DataNode_snap(n, st) ==
    IF ~Exists(st.tree, FsRoot(n)) THEN Raise(st, "OSError")
    ELSE Ok(st, package(n, st.tree))

\* sync: resp is the outcome of the GET of the donor's /snap.
DataNode_sync(n, st, resp) ==
    IF resp.exc # "none" THEN Raise(st, "URLError")
    ELSE Ok(NodeState(unpack(resp.ret, st.tree, FsRoot(n)), st.workdir), <<>>)

DataNode_ping_alive(n, st) == Ok(st, TRUE)

\* ------------------------------------------------------------ urls, codec
\* A body is the sequence of its space-separated tokens; a token is the
\* sequence of its pieces between ':'.
RECURSIVE Colon(_)
Colon(tok) == IF Len(tok) = 1 THEN tok[1] ELSE tok[1] \o ":" \o Colon(Tail(tok))

\* DataNode.join_namespace builds "[public_url ][host:]port id".
JoinBody(n) ==
    LET data == <<IF HasAdvertiseHost(n) THEN <<AdvertiseHost(n), AdvertisePort>> ELSE <<AdvertisePort>>,
                  <<NodeId(n)>>>>
    IN IF HasPublicUrl(n) THEN <<PublicUrl(n)>> \o data ELSE data

deserialize_join(tmp, remote_ip) ==
    LET public_url == IF Len(tmp) > 2 THEN Colon(tmp[1]) ELSE None
        port == tmp[Len(tmp) - 1]
        id == Colon(tmp[Len(tmp)])
        host == IF Len(port) > 1 THEN port[1] ELSE remote_ip
    IN <<public_url, "http://" \o host \o ":" \o port[Len(port)] \o "/", id>>

\* urljoin for a base that ends in "/" and a relative reference; an empty
\* or missing base yields the reference alone.
urljoin(base, url) == IF base = None \/ base = "" THEN url ELSE base \o url

\* The data node listening at url.
Url(host) == "http://" \o host \o ":" \o AdvertisePort \o "/"
NodeAt(url) == CHOOSE n \in DataNodes : url \in {Url(SourceIp(n)), Url(AdvertiseHost(n))}

\* HttpDataNode.rmdir sends path + '!' for force: the flag travels as the
\* last character of the path.
Bang(path) ==
    IF path.segs = <<>> THEN [path EXCEPT !.segs = <<"!">>]
    ELSE [path EXCEPT !.segs[Len(path.segs)] = @ \o "!"]
HttpDataNode_rmdir(path, force) == IF force THEN <<Bang(path), FALSE>> ELSE <<path, FALSE>>

\* -------------------------------------------------------- membership store
Record(id, url, public_url, status) ==
    [id |-> id, url |-> url, public_url |-> public_url, status |-> status]

\* A handle copies the record it is made from.
Member(r) == r

\* What DictWriter writes for the table: None is written as the empty field.
MemberDB_sync(records) ==
    [i \in DOMAIN records |->
        <<records[i].id, records[i].url,
          IF records[i].public_url = None THEN "" ELSE records[i].public_url,
          records[i].status>>]

\* MemberDB.__init__: DictReader yields every field of a row as a string.
MemberDB_init(rows) ==
    [i \in DOMAIN rows |-> Record(rows[i][1], rows[i][2], rows[i][3], rows[i][4])]

Position(records, id) == {i \in DOMAIN records : records[i].id = id}

\* self._records[id] = record: a present key keeps its place in the dict.
MemberDB_create(records, id, url, public_url, status) ==
    IF Position(records, id) # {}
    THEN [i \in DOMAIN records |->
            IF records[i].id = id THEN Record(id, url, public_url, status) ELSE records[i]]
    ELSE Append(records, Record(id, url, public_url, status))

\* self._records[record['id']].update(record): all four fields of the handle.
MemberDB_update(records, record) ==
    [i \in DOMAIN records |-> IF records[i].id = record.id THEN record ELSE records[i]]

\* A filter that forgets its predicates.
MemberDB_filter_all(records, kwargs) == [i \in DOMAIN records |-> Member(records[i])]

Matches(r, kwargs) == \A key \in DOMAIN kwargs : r[key] = kwargs[key]
MemberDB_filter(records, kwargs) ==
    LET keep(r) == Matches(r, kwargs)
    IN [i \in DOMAIN SelectSeq(records, keep) |-> Member(SelectSeq(records, keep)[i])]

\* Member.status setter: the handle's field, then save() of the whole handle.
Member_status(records, m, v) == MemberDB_update(records, [m EXCEPT !.status = v])

\* ------------------------------------------------------------------- state
VARIABLES
    records,   \* MemberDB._records, in the dict's insertion order
    disk,      \* the rows of the membership file
    up,        \* the data nodes that answer requests
    dn,        \* per data node: its tree and workdir
    hb,        \* the heartbeat worker: position, snapshot, member in hand
    stop,      \* the stop event of the heartbeat
    fan,       \* the client request in hand: what it called, what it answers
    same,      \* pairs of members that were equal when the fan-out started
    joins, ops, flips, ticks,
    lock,      \* MemberDB._lock: its owner and how often the owner holds it
    th,        \* per thread inside the store: its frames and its position
    call,      \* a single call in hand: the function, its input, its outcome
    svc,       \* a data node's process: its instance and its state file
    hung       \* the data nodes that accept a connection and never answer

vars == <<records, disk, up, dn, hb, stop, fan, same, joins, ops, flips, ticks, lock, th, call, svc, hung>>

NoMember == Record(None, None, None, None)

\* The lock is free; no thread is inside the store; no call is in hand.
Threads == {"dispatcher", "heartbeat"}
NoThread == "<nobody>"
NoLock == [owner |-> NoThread, count |-> 0]
IdleThread == [stack |-> <<>>, pc |-> "idle", arg |-> NoMember, v |-> None,
               kw |-> <<>>, seen |-> <<>>, n |-> 0]
NoThreads == [t \in Threads |-> IdleThread]
\* No process of the data node yet: no instance, no state file.
NoService == [run |-> FALSE, id |-> None, namenode_url |-> None, state_file |-> <<>>, posts |-> 0]
NoCall == [on |-> "none", fn |-> "none", args |-> <<>>, ret |-> <<>>, exc |-> "none"]

\* The requests of the clients of the model.
P_root == Abs(<<>>)
P_d == Abs(<<"d">>)
P_f == Rel(<<"f">>)
P_g == Rel(<<"g">>)
Mutations ==
    << [op |-> "mkfs", args |-> <<>>],
      [op |-> "cd", args |-> <<P_d>>],
      [op |-> "mkdir", args |-> <<P_d>>],
      [op |-> "rmdir", args |-> <<P_d, FALSE>>],
      [op |-> "rmdir", args |-> <<P_d, TRUE>>],
      [op |-> "touch", args |-> <<P_f>>],
      [op |-> "tee", args |-> <<P_f, "x">>],
      [op |-> "rm", args |-> <<P_f>>],
      [op |-> "cp", args |-> <<P_f, P_d>>],
      [op |-> "mv", args |-> <<P_f, P_g>>] >>
Reads == {"ls", "cat", "stat"}

\* The method of DataNode.HANDLERS that a request reaches, applied.
Handle(n, st, op, args) ==
    CASE op = "mkfs" -> DataNode_mkfs(n, st)
      [] op = "cd" -> DataNode_cd(n, st, args[1])
      [] op = "mkdir" -> DataNode_mkdir(n, st, args[1])
      [] op = "rmdir" -> DataNode_rmdir(n, st, args[1], args[2])
      [] op = "touch" -> DataNode_touch(n, st, args[1])
      [] op = "tee" -> DataNode_tee(n, st, args[1], args[2])
      [] op = "rm" -> DataNode_rm(n, st, args[1])
      [] op = "stat" -> DataNode_stat(n, st, args[1])
      [] op = "cp" -> DataNode_cp(n, st, args[1], args[2])
      [] op = "mv" -> DataNode_mv(n, st, args[1], args[2])
      [] op = "snap" -> DataNode_snap(n, st)
      [] op = "ping_alive" -> DataNode_ping_alive(n, st)
      [] op = "ls" -> DataNode_ls(n, st, args[1])
      [] op = "cat" -> DataNode_cat(n, st, args[1])

\* What the sender puts on the wire for a call.
Wire(op, args) == IF op = "rmdir" THEN HttpDataNode_rmdir(args[1], args[2]) ELSE args

\* urlopen of a data node's endpoint: URLError when the node does not
\* answer, HTTPError when its handler raises, its answer otherwise.
urlopen(nodes, reachable, url, op, args) ==
    LET n == NodeAt(url) IN
    IF n \notin reachable THEN Raise(nodes[n], "URLError")
    ELSE LET r == Handle(n, nodes[n], op, Wire(op, args)) IN
         IF r.exc # "none" THEN Raise(r.st, "HTTPError") ELSE r

\* HttpDataNode.sync: the target fetches the donor's /snap itself.
HttpDataNode_sync(nodes, reachable, url, donor_url) ==
    LET n == NodeAt(url) IN
    IF n \notin reachable THEN Raise(nodes[n], "URLError")
    ELSE LET r == DataNode_sync(n, nodes[n], urlopen(nodes, reachable, donor_url, "snap", <<>>)) IN
         IF r.exc # "none" THEN Raise(r.st, "HTTPError") ELSE r

\* No request in hand.
Idle == [pc |-> "idle", op |-> "none", args |-> <<>>, nodes |-> <<>>, k |-> 0,
         calls |-> <<>>, exc |-> "none", table |-> <<>>, node |-> NoMember,
         body |-> "", status |-> ""]
NoScan == [pc |-> "tick", members |-> <<>>, i |-> 0, donor |-> NoMember,
           wd |-> <<>>, exc |-> "none"]

\* The name node is constructed over a membership file.  The file is empty,
\* or it holds a cluster that was bootstrapped and written to before the
\* name node was started again: the first k data nodes, ALIVE, each after
\* mkfs, mkdir /d and tee f "x", with workdir "/".  The other data nodes
\* have no root yet.  The file holds up to MaxMembers members; a further
\* data node becomes a member by joining.
MaxMembers == 2
NodeOrder == <<"n1", "n2", "n3">>
Joined(n, status) ==
    LET a == deserialize_join(JoinBody(n), SourceIp(n)) IN Record(a[3], a[2], a[1], status)
Populated(n) ==
    LET s1 == DataNode_mkfs(n, NodeState(<<>>, <<>>)).st
        s2 == DataNode_mkdir(n, s1, P_d).st
    IN DataNode_tee(n, s2, P_f, "x").st
Formatted(k) ==
    [n \in DataNodes |->
        IF \E i \in 1..k : NodeOrder[i] = n
        THEN Populated(n)
        ELSE NodeState(<<>>, <<>>)]

Init ==
    /\ \E k \in 0..MaxMembers :
          /\ records = MemberDB_init(MemberDB_sync([i \in 1..k |-> Joined(NodeOrder[i], ALIVE)]))
          /\ dn = Formatted(k)
    /\ disk = MemberDB_sync(records)
    /\ up = DataNodes
    /\ hb = NoScan
    /\ stop = FALSE
    /\ fan = Idle
    /\ same = {}
    /\ joins = 0 /\ ops = 0 /\ flips = 0 /\ ticks = 0
    /\ lock = NoLock /\ th = NoThreads /\ call = NoCall /\ svc = NoService /\ hung = {}

StatusOf(recs, id) == recs[CHOOSE i \in DOMAIN recs : recs[i].id = id].status
UrlOf(recs, id) == recs[CHOOSE i \in DOMAIN recs : recs[i].id = id].url
Ids(recs) == {recs[i].id : i \in DOMAIN recs}
\* The members with status ALIVE whose node answers.
Serving(recs, reachable) ==
    {id \in Ids(recs) : StatusOf(recs, id) = ALIVE /\ NodeAt(UrlOf(recs, id)) \in reachable}
\* The filesystem contents of a member, as its snapshot holds them.
Contents(recs, nodes, id) ==
    LET n == NodeAt(UrlOf(recs, id)) IN package(n, nodes[n].tree)

\* same: when a fan-out starts, the pairs of serving members with equal
\* contents; afterwards those of them that have been serving ever since.
\* The steps of the cluster take each store operation as a whole.
Track ==
    /\ UNCHANGED <<lock, th, call, svc, hung>>
    /\ same' = IF fan'.pc = "idle" THEN {}
               ELSE IF fan.pc = "idle"
               THEN {pr \in SUBSET Serving(records', up') :
                        /\ Cardinality(pr) = 2
                        /\ \A a, b \in pr : Contents(records', dn', a) = Contents(records', dn', b)}
               ELSE {pr \in same : pr \subseteq Serving(records', up')}

\* ------------------------------------------------------- name node: joins
\* POST /nodes/join from data node n: add_node(*deserialize_join(body)).
NameNode_add_node(recs, public_url, url, node_id) == MemberDB_create(recs, node_id, url, public_url, NEW_)

Join(n) ==
    /\ joins < MaxJoins
    /\ LET a == deserialize_join(JoinBody(n), SourceIp(n)) IN
       records' = NameNode_add_node(records, a[1], a[2], a[3])
    /\ disk' = MemberDB_sync(records')
    /\ joins' = joins + 1
    /\ UNCHANGED <<up, dn, hb, stop, fan, ops, flips, ticks>>
    /\ Track

\* urlopen is called without a timeout: the call returns when the peer
\* answers or refuses, and a peer that accepts the connection and never
\* answers keeps the caller waiting.
Answers(url) == NodeAt(url) \notin hung

\* --------------------------------------------------- name node: heartbeat
M == hb.members[hb.i]
Scanning == hb.pc = "member" /\ hb.i <= Len(hb.members)
Store(nodes, url, r) == [nodes EXCEPT ![NodeAt(url)] = r.st]
\* The loop goes on with the next member; exc is what the try block caught.
NextMember(exc) ==
    [hb EXCEPT !.pc = "member", !.i = @ + 1, !.donor = NoMember, !.wd = <<>>, !.exc = exc]

\* finally: m.status = ALIVE
track_members_finally(recs, m) == Member_status(recs, m, ALIVE)
\* An except clause that would leave the status as it was.
except_IndexError_skip(recs, m) == recs
\* except IndexError: continue, which leaves through the finally clause
except_IndexError(recs, m) == track_members_finally(recs, m)
\* any other exception leaves through the finally clause and ends the worker
Propagate(recs, m) == track_members_finally(recs, m)

\* A scan that ignores the stop event and sleeps again.
HbEndScan_sleep ==
    /\ hb.pc = "member" /\ hb.i > Len(hb.members)
    /\ hb' = [NoScan EXCEPT !.pc = "tick"]
    /\ UNCHANGED <<records, disk, up, dn, stop, fan, joins, ops, flips, ticks>>
    /\ UNCHANGED <<lock, th, call, svc, hung, same>>

\* members = db.filter(), after the sleep; the tick that follows the stop
\* event is the last one and is not counted against the bound.
HbFilter ==
    /\ hb.pc = "tick" /\ (ticks < MaxTicks \/ stop)
    /\ hb' = [NoScan EXCEPT !.pc = "member", !.members = MemberDB_filter(records, <<>>),
                            !.i = 1]
    /\ ticks' = ticks + 1
    /\ UNCHANGED <<records, disk, up, dn, stop, fan, joins, ops, flips>>
    /\ Track

\* if stop_event.is_set(): return; time.sleep(interval)
HbEndScan ==
    /\ hb.pc = "member" /\ hb.i > Len(hb.members)
    /\ hb' = [NoScan EXCEPT !.pc = IF stop THEN "returned" ELSE "tick"]
    /\ UNCHANGED <<records, disk, up, dn, stop, fan, joins, ops, flips, ticks>>
    /\ Track

\* node.mkfs() of a NEW member, and of a DEAD member that answered the ping:
\* outside the try, so a failure ends the worker with the status as it was.
Mkfs ==
    LET r == urlopen(dn, up, M.url, "mkfs", <<>>) IN
    /\ Answers(M.url)
    /\ dn' = Store(dn, M.url, r)
    /\ hb' = IF r.exc = "none" THEN [hb EXCEPT !.pc = "pick", !.exc = "none"]
             ELSE [hb EXCEPT !.pc = "crashed", !.exc = r.exc]
    /\ UNCHANGED <<records, disk, up, stop, fan, joins, ops, flips, ticks>>
    /\ Track

HbInitNew == Scanning /\ M.status = NEW_ /\ Mkfs

HbMkfsDead == hb.pc = "mkfs" /\ Mkfs

\* ping_alive() answers False for URLError and HTTPError.
HbPing ==
    /\ Scanning /\ M.status # NEW_
    /\ Answers(M.url)
    /\ LET r == urlopen(dn, up, M.url, "ping_alive", <<>>) IN
       IF r.exc = "none"
       THEN /\ hb' = IF M.status = DEAD THEN [hb EXCEPT !.pc = "mkfs", !.exc = "none"]
                     ELSE NextMember("none")
            /\ UNCHANGED <<records, disk>>
       ELSE /\ records' = Member_status(records, M, DEAD)
            /\ disk' = MemberDB_sync(records')
            /\ hb' = NextMember("none")
    /\ UNCHANGED <<up, dn, stop, fan, joins, ops, flips, ticks>>
    /\ Track

\* donor = random.choice(db.filter(status=ALIVE))
HbPick ==
    /\ hb.pc = "pick"
    /\ LET alive == MemberDB_filter(records, [status |-> ALIVE]) IN
       IF alive = <<>>
       THEN /\ records' = except_IndexError(records, M)
            /\ disk' = MemberDB_sync(records')
            /\ hb' = NextMember("IndexError")
       ELSE /\ \E j \in DOMAIN alive : hb' = [hb EXCEPT !.pc = "sync", !.donor = alive[j]]
            /\ UNCHANGED <<records, disk>>
    /\ UNCHANGED <<up, dn, stop, fan, joins, ops, flips, ticks>>
    /\ Track

\* A failed peer call inside the try: the finally clause commits ALIVE and
\* the exception ends the worker.
Failed(r) ==
    /\ records' = Propagate(records, M)
    /\ disk' = MemberDB_sync(records')
    /\ hb' = [hb EXCEPT !.pc = "crashed", !.exc = r.exc]

\* node.sync(donor.url)
HbSync ==
    /\ hb.pc = "sync"
    /\ Answers(M.url) /\ Answers(hb.donor.url)
    /\ LET r == HttpDataNode_sync(dn, up, M.url, hb.donor.url) IN
       /\ dn' = Store(dn, M.url, r)
       /\ IF r.exc = "none"
          THEN hb' = [hb EXCEPT !.pc = "stat"] /\ UNCHANGED <<records, disk>>
          ELSE Failed(r)
    /\ UNCHANGED <<up, stop, fan, joins, ops, flips, ticks>>
    /\ Track

\* donor_node.stat('.')[0]
HbStat ==
    /\ hb.pc = "stat"
    /\ Answers(hb.donor.url)
    /\ LET r == urlopen(dn, up, hb.donor.url, "stat", <<Rel(<<".">>)>>) IN
       IF r.exc = "none"
       THEN hb' = [hb EXCEPT !.pc = "cd", !.wd = r.ret[1]] /\ UNCHANGED <<records, disk>>
       ELSE Failed(r)
    /\ UNCHANGED <<up, dn, stop, fan, joins, ops, flips, ticks>>
    /\ Track

\* node.cd(...), and on its return the finally clause
HbCd ==
    /\ hb.pc = "cd"
    /\ Answers(M.url)
    /\ LET r == urlopen(dn, up, M.url, "cd", <<Abs(hb.wd)>>) IN
       /\ dn' = Store(dn, M.url, r)
       /\ IF r.exc = "none"
          THEN /\ records' = track_members_finally(records, M)
               /\ disk' = MemberDB_sync(records')
               /\ hb' = NextMember("none")
          ELSE Failed(r)
    /\ UNCHANGED <<up, stop, fan, joins, ops, flips, ticks>>
    /\ Track

\* NameNode.__del__ sets the stop event.
Teardown ==
    /\ ~stop
    /\ stop' = TRUE
    /\ UNCHANGED <<records, disk, up, dn, hb, fan, joins, ops, flips, ticks>>
    /\ Track

\* -------------------------------------------------- name node: dispatcher
\* nodes = self._db.filter(status=ALIVE)
StartOp(req) ==
    /\ fan.pc = "idle" /\ ops < MaxOps
    /\ LET nodes == MemberDB_filter(records, [status |-> ALIVE]) IN
       fan' = [Idle EXCEPT !.pc = IF nodes = <<>> THEN "done" ELSE "fanout",
                           !.op = req.op, !.args = req.args, !.nodes = nodes, !.k = 1,
                           !.table = records]
    /\ ops' = ops + 1
    /\ UNCHANGED <<records, disk, up, dn, hb, stop, joins, flips, ticks>>
    /\ Track

\* for node in nodes: HttpDataNode(node.url).op(...): one turn of the loop;
\* an exception of the call leaves the method.
FanCall ==
    /\ fan.pc = "fanout"
    /\ Answers(fan.nodes[fan.k].url)
    /\ LET node == fan.nodes[fan.k]
           r == urlopen(dn, up, node.url, fan.op, fan.args)
       IN /\ dn' = Store(dn, node.url, r)
          /\ fan' = [fan EXCEPT !.calls = Append(@, node.id),
                                !.exc = r.exc,
                                !.k = @ + 1,
                                !.pc = IF r.exc # "none" \/ fan.k = Len(fan.nodes)
                                       THEN "done" ELSE "fanout",
                                !.status = IF r.exc # "none" THEN "unhandled" ELSE ""]
    /\ UNCHANGED <<records, disk, up, hb, stop, joins, ops, flips, ticks>>
    /\ Track

\* route_request: a CommandError of the command becomes 400 Bad Request; any
\* other exception is not caught.
route_request(exc) ==
    IF exc = "none" THEN "200 OK"
    ELSE IF exc = "CommandError" THEN "400 Bad Request"
    ELSE "unhandled"

\* ls, cat, stat: random.choice(self._db.filter(status=ALIVE)), IndexError
\* on the empty list; urljoin(node.public_url, op).
NameNode_read(op, nodes, j) ==
    IF nodes = <<>>
    THEN [Idle EXCEPT !.pc = "done", !.op = op, !.nodes = nodes, !.exc = "IndexError",
                      !.status = route_request("IndexError")]
    ELSE [Idle EXCEPT !.pc = "done", !.op = op, !.nodes = nodes, !.node = nodes[j],
                      !.body = urljoin(nodes[j].public_url, op),
                      !.status = route_request("none")]

Read(op) ==
    /\ fan.pc = "idle" /\ ops < MaxOps
    /\ LET nodes == MemberDB_filter(records, [status |-> ALIVE]) IN
       \E j \in (DOMAIN nodes) \cup {1} :
          /\ j = 1 \/ j \in DOMAIN nodes
          /\ fan' = [NameNode_read(op, nodes, j) EXCEPT !.table = records]
    /\ ops' = ops + 1
    /\ UNCHANGED <<records, disk, up, dn, hb, stop, joins, flips, ticks>>
    /\ Track

\* The answer is sent; the dispatcher takes the next request.
Return ==
    /\ fan.pc = "done"
    /\ fan' = Idle
    /\ UNCHANGED <<records, disk, up, dn, hb, stop, joins, ops, flips, ticks>>
    /\ Track

\* ------------------------------------------------------------ environment
\* A data node stops answering (its process or its network is down).
Down(n) ==
    /\ flips < MaxFlips /\ n \in up
    /\ up' = up \ {n}
    /\ flips' = flips + 1
    /\ UNCHANGED <<records, disk, dn, hb, stop, fan, joins, ops, ticks>>
    /\ Track

\* It answers again; a restarted process starts with workdir "/"
\* (DataNode.__init__), its files are those on the disk.
Up(n, restarted) ==
    /\ flips < MaxFlips /\ n \notin up
    /\ up' = up \cup {n}
    /\ dn' = IF restarted THEN [dn EXCEPT ![n].workdir = <<>>] ELSE dn
    /\ flips' = flips + 1
    /\ UNCHANGED <<records, disk, hb, stop, fan, joins, ops, ticks>>
    /\ Track

\* ----------------------------------------------------- the specification
\* The cluster in service: joins, the heartbeat, client requests and data
\* nodes that stop and start answering.  The teardown of the name node is
\* followed in HbSpec.
Next ==
    \/ \E n \in DataNodes : Join(n)
    \/ HbFilter
    \/ HbInitNew
    \/ HbPing
    \/ HbMkfsDead
    \/ HbPick
    \/ HbSync
    \/ HbStat
    \/ HbCd
    \/ HbEndScan
    \/ \E i \in DOMAIN Mutations : StartOp(Mutations[i])
    \/ FanCall
    \/ \E op \in Reads : Read(op)
    \/ Return
    \/ \E n \in DataNodes : Down(n)
    \/ \E n \in DataNodes, restarted \in BOOLEAN : Up(n, restarted)

Spec == Init /\ [][Next]_vars

\* ------------------------------------------------- heartbeat and teardown
\* The heartbeat worker beside joins, failing peers and the teardown of the
\* name node, without client requests.
HbInit ==
    /\ \E k \in 0..2 :
          /\ records = MemberDB_init(MemberDB_sync([i \in 1..k |-> Joined(NodeOrder[i], ALIVE)]))
          /\ dn = Formatted(k)
    /\ disk = MemberDB_sync(records)
    /\ up = DataNodes /\ hb = NoScan /\ stop = FALSE /\ fan = Idle /\ same = {}
    /\ joins = 0 /\ ops = 0 /\ flips = 0 /\ ticks = 0
    /\ lock = NoLock /\ th = NoThreads /\ call = NoCall /\ svc = NoService /\ hung = {}

\* One step of track_members.
Heartbeat ==
    \/ HbFilter
    \/ HbInitNew
    \/ HbPing
    \/ HbMkfsDead
    \/ HbPick
    \/ HbSync
    \/ HbStat
    \/ HbCd
    \/ HbEndScan

Terminated == hb.pc \in {"returned", "crashed"}

\* NameNode.__del__: self._heartbeat.join() returns when the thread has ended.
Teardown_join ==
    /\ stop /\ call.fn # "__del__"
    /\ Terminated
    /\ call' = [on |-> "namenode", fn |-> "__del__", args |-> <<>>, ret |-> <<>>, exc |-> "none"]
    /\ UNCHANGED <<records, disk, up, dn, hb, stop, fan, same, joins, ops, flips, ticks, lock, th, svc, hung>>

HbNext ==
    \/ \E n \in DataNodes : Join(n)
    \/ HbFilter
    \/ HbInitNew
    \/ HbPing
    \/ HbMkfsDead
    \/ HbPick
    \/ HbSync
    \/ HbStat
    \/ HbCd
    \/ HbEndScan
    \/ Teardown
    \/ Teardown_join
    \/ \E n \in DataNodes : Down(n)
    \/ \E n \in DataNodes, restarted \in BOOLEAN : Up(n, restarted)

\* The worker's thread is scheduled, its sleep ends and every peer call
\* returns (an answer or an error); join returns once the thread has ended.
HbSpec == HbInit /\ [][HbNext]_vars /\ WF_vars(Heartbeat) /\ WF_vars(Teardown_join)

\* ------------------------------------------------------- peers that hang
\* A data node accepts connections and never answers again.
Hang(n) ==
    /\ n \in up \ hung
    /\ hung' = hung \cup {n}
    /\ UNCHANGED <<records, disk, up, dn, hb, stop, fan, same, joins, ops, flips, ticks,
                   lock, th, call, svc>>

HangInit ==
    /\ \E k \in 1..Len(NodeOrder) :
          /\ records = MemberDB_init(MemberDB_sync([i \in 1..k |-> Joined(NodeOrder[i], ALIVE)]))
          /\ dn = Formatted(k)
    /\ disk = MemberDB_sync(records)
    /\ up = DataNodes /\ hb = NoScan /\ stop = FALSE /\ fan = Idle /\ same = {}
    /\ joins = 0 /\ ops = 0 /\ flips = 0 /\ ticks = 0
    /\ lock = NoLock /\ th = NoThreads /\ call = NoCall /\ svc = NoService /\ hung = {}

HangNext ==
    \/ \E n \in DataNodes : Hang(n)
    \/ \E i \in DOMAIN Mutations : StartOp(Mutations[i])
    \/ FanCall
    \/ Return
    \/ HbFilter
    \/ HbPing
    \/ HbEndScan

HangSpec == HangInit /\ [][HangNext]_vars

\* ------------------------------------------------------------- bootstrap
\* A name node started over a membership file whose members are all NEW:
\* every data node answers, nobody joins or leaves, and a client creates /d
\* and changes into it while the heartbeat initializes the members.
MaxBootOps == 2
BootRequests == {[op |-> "mkdir", args |-> <<P_d>>], [op |-> "cd", args |-> <<Abs(<<"d">>)>>]}

BootInit ==
    /\ \E k \in 2..Len(NodeOrder) :
          records = MemberDB_init(MemberDB_sync([i \in 1..k |-> Joined(NodeOrder[i], NEW_)]))
    /\ disk = MemberDB_sync(records)
    /\ dn = Formatted(0)
    /\ up = DataNodes /\ hb = NoScan /\ stop = FALSE /\ fan = Idle /\ same = {}
    /\ joins = 0 /\ ops = 0 /\ flips = 0 /\ ticks = 0
    /\ lock = NoLock /\ th = NoThreads /\ call = NoCall /\ svc = NoService /\ hung = {}

\* nodes = self._db.filter(status=ALIVE), for a request of the client's session
BootOp(req) ==
    /\ fan.pc = "idle" /\ ops < MaxBootOps
    /\ LET nodes == MemberDB_filter(records, [status |-> ALIVE]) IN
       fan' = [Idle EXCEPT !.pc = IF nodes = <<>> THEN "done" ELSE "fanout",
                           !.op = req.op, !.args = req.args, !.nodes = nodes, !.k = 1,
                           !.table = records]
    /\ ops' = ops + 1
    /\ UNCHANGED <<records, disk, up, dn, hb, stop, joins, flips, ticks>>
    /\ Track

BootNext ==
    \/ HbFilter
    \/ HbInitNew
    \/ HbPing
    \/ HbPick
    \/ HbSync
    \/ HbStat
    \/ HbCd
    \/ HbEndScan
    \/ \E req \in BootRequests : BootOp(req)
    \/ FanCall
    \/ Return

\* The worker's thread is scheduled and every peer call returns.
BootSpec == BootInit /\ [][BootNext]_vars /\ WF_vars(Heartbeat)

\* ---------------------------------------------- the store under threads
\* The dispatcher threads and the heartbeat thread call the store's methods;
\* here each method is taken statement by statement.  A thread's stack holds
\* the methods it is in (status setter -> update -> sync); its pc is "lock"
\* before `with self._lock`, "body" inside it, "write" between sync's open
\* and its writerows, "unlock" at the end of the with block.
MaxStoreOps == 2

\* threading.Lock: the owner itself waits for it.
Lock_acquire(lk, t) == lk.owner = NoThread
\* threading.RLock: free, or held by the thread itself.
RLock_acquire(lk, t) == lk.owner = NoThread \/ lk.owner = t
RLock_release(lk) == IF lk.count = 1 THEN NoLock ELSE [lk EXCEPT !.count = @ - 1]

Top(t) == th[t].stack[Len(th[t].stack)]
Enter(t, f) == [th EXCEPT ![t].stack = Append(@, f), ![t].pc = "lock"]
StoreRest == UNCHANGED <<up, dn, hb, stop, fan, same, joins, ops, flips, ticks, call, svc, hung>>

StoreInit ==
    /\ \E k \in 0..1 : records = MemberDB_init(MemberDB_sync([i \in 1..k |-> Joined(NodeOrder[i], ALIVE)]))
    /\ disk = MemberDB_sync(records)
    /\ dn = Formatted(0)
    /\ up = DataNodes /\ hb = NoScan /\ stop = FALSE /\ fan = Idle /\ same = {}
    /\ joins = 0 /\ ops = 0 /\ flips = 0 /\ ticks = 0
    /\ lock = NoLock /\ th = NoThreads /\ call = NoCall /\ svc = NoService /\ hung = {}

Begin(t) ==
    /\ th[t].pc = "idle" /\ th[t].n < MaxStoreOps
    /\ UNCHANGED <<records, disk, lock>>
    /\ StoreRest

\* self._db.create(node_id, url, public_url=public_url): the join of data
\* node n, sent from its own address or, after it has moved, from another.
CallCreate(t, n, at) ==
    /\ Begin(t)
    /\ th' = [th EXCEPT ![t] = [@ EXCEPT !.stack = <<"create">>, !.pc = "lock", !.n = @ + 1,
                                        !.arg = [Joined(n, NEW_) EXCEPT !.url = Joined(at, NEW_).url]]]

\* m.status = v, on a handle that a filter or a get returned
CallStatus(t, i, v) ==
    /\ Begin(t)
    /\ i \in DOMAIN th[t].seen
    /\ th' = [th EXCEPT ![t] = [@ EXCEPT !.stack = <<"status">>, !.pc = "lock", !.n = @ + 1,
                                        !.arg = th[t].seen[i], !.v = v]]

\* db.filter(**kwargs)
CallFilter(t, kwargs) ==
    /\ Begin(t)
    /\ th' = [th EXCEPT ![t] = [@ EXCEPT !.stack = <<"filter">>, !.pc = "lock", !.n = @ + 1,
                                        !.kw = kwargs]]

\* db.get(id)
CallGet(t, n) ==
    /\ Begin(t)
    /\ th' = [th EXCEPT ![t] = [@ EXCEPT !.stack = <<"get">>, !.pc = "lock", !.n = @ + 1,
                                        !.arg = Joined(n, None)]]

\* with self._lock:
StoreAcquire(t) ==
    /\ th[t].pc = "lock"
    /\ RLock_acquire(lock, t)
    /\ lock' = [owner |-> t, count |-> lock.count + 1]
    /\ th' = [th EXCEPT ![t].pc = "body"]
    /\ UNCHANGED <<records, disk>>
    /\ StoreRest

\* The statements inside the with block, up to the next call into the store.
StoreBody(t) ==
    /\ th[t].pc = "body"
    /\ LET f == Top(t)
           a == th[t].arg
       IN CASE f = "create" ->
                 /\ records' = MemberDB_create(records, a.id, a.url, a.public_url, a.status)
                 /\ th' = Enter(t, "sync")
                 /\ UNCHANGED disk
            [] f = "status" ->
                 /\ th' = [Enter(t, "update") EXCEPT ![t].arg = [a EXCEPT !.status = th[t].v]]
                 /\ UNCHANGED <<records, disk>>
            [] f = "update" ->
                 /\ records' = MemberDB_update(records, a)
                 /\ th' = Enter(t, "sync")
                 /\ UNCHANGED disk
            [] f = "sync" ->
                 /\ disk' = <<>>
                 /\ th' = [th EXCEPT ![t].pc = "write"]
                 /\ UNCHANGED records
            [] f = "filter" ->
                 /\ th' = [th EXCEPT ![t].seen = MemberDB_filter(records, th[t].kw),
                                     ![t].pc = "unlock"]
                 /\ UNCHANGED <<records, disk>>
            [] f = "get" ->
                 /\ th' = [th EXCEPT ![t].seen = MemberDB_filter(records, [id |-> a.id]),
                                     ![t].pc = "unlock"]
                 /\ UNCHANGED <<records, disk>>
    /\ UNCHANGED lock
    /\ StoreRest

\* writer.writerows(self._records.values())
StoreWrite(t) ==
    /\ th[t].pc = "write"
    /\ disk' = MemberDB_sync(records)
    /\ th' = [th EXCEPT ![t].pc = "unlock"]
    /\ UNCHANGED <<records, lock>>
    /\ StoreRest

\* The end of the with block: the method returns to its caller, which is at
\* the end of its own with block.
StoreRelease(t) ==
    /\ th[t].pc = "unlock"
    /\ lock' = RLock_release(lock)
    /\ th' = [th EXCEPT ![t].stack = Front(@),
                        ![t].pc = IF Len(th[t].stack) = 1 THEN "idle" ELSE "unlock"]
    /\ UNCHANGED <<records, disk>>
    /\ StoreRest

StoreNext ==
    \/ \E t \in Threads, n \in {"n1", "n3"}, at \in {"n1", "n3"} : CallCreate(t, n, at)
    \/ \E t \in Threads, i \in 1..2, v \in {ALIVE, DEAD} : CallStatus(t, i, v)
    \/ \E t \in Threads, kwargs \in {<<>>, [status |-> ALIVE]} : CallFilter(t, kwargs)
    \/ \E t \in Threads, n \in {"n1", "n3"} : CallGet(t, n)
    \/ \E t \in Threads : StoreAcquire(t)
    \/ \E t \in Threads : StoreBody(t)
    \/ \E t \in Threads : StoreWrite(t)
    \/ \E t \in Threads : StoreRelease(t)

StoreSpec == StoreInit /\ [][StoreNext]_vars

\* ------------------------------------------------------- one data node
\* A data node on its own, called through its methods with paths of up to
\* MaxPathLen segments, "." and ".." among them.  Before its first mkfs the
\* node's fs_root does not exist.
MaxPathLen == 2
MaxVfsOps == 2

VfsNodes == {"n1"}
Names == {"d", "f", "..", "."}
Segs == UNION {[1..k -> Names] : k \in 0..MaxPathLen}
VfsPaths == {Abs(s) : s \in Segs} \cup {Rel(s) : s \in Segs}
\* The destinations of cp and mv: a directory, a new name, the parent.
VfsDsts == {Abs(<<"d">>), Rel(<<"g">>), Rel(<<"..">>), Rel(<<"..", "..", "g">>)}

VfsInit ==
    /\ \E k \in 0..1 : dn = Formatted(k)
    /\ records = <<>> /\ disk = <<>>
    /\ up = DataNodes /\ hb = NoScan /\ stop = FALSE /\ fan = Idle /\ same = {}
    /\ joins = 0 /\ ops = 0 /\ flips = 0 /\ ticks = 0
    /\ lock = NoLock /\ th = NoThreads /\ call = NoCall /\ svc = NoService /\ hung = {}

\* The method runs on node n; the call in hand keeps what was asked and how
\* it ended.
Invoke(n, fn, args) ==
    /\ ops < MaxVfsOps
    /\ LET r == Handle(n, dn[n], fn, args) IN
       /\ dn' = [dn EXCEPT ![n] = r.st]
       /\ call' = [on |-> n, fn |-> fn, args |-> args, ret |-> r.ret, exc |-> r.exc]
    /\ ops' = ops + 1
    /\ UNCHANGED <<records, disk, up, hb, stop, fan, same, joins, flips, ticks, lock, th, svc, hung>>

Vfs_mkfs(n) == n \in VfsNodes /\ Invoke(n, "mkfs", <<>>)
Vfs_cd(n, p) == n \in VfsNodes /\ Invoke(n, "cd", <<p>>)
Vfs_ls(n, p) == n \in VfsNodes /\ Invoke(n, "ls", <<p>>)
Vfs_cat(n, p) == n \in VfsNodes /\ Invoke(n, "cat", <<p>>)
Vfs_mkdir(n, p) == n \in VfsNodes /\ Invoke(n, "mkdir", <<p>>)
Vfs_rmdir(n, p, force) == n \in VfsNodes /\ Invoke(n, "rmdir", <<p, force>>)
Vfs_touch(n, p) == n \in VfsNodes /\ Invoke(n, "touch", <<p>>)
Vfs_tee(n, p, data) == n \in VfsNodes /\ Invoke(n, "tee", <<p, data>>)
Vfs_rm(n, p) == n \in VfsNodes /\ Invoke(n, "rm", <<p>>)
Vfs_stat(n, p) == n \in VfsNodes /\ Invoke(n, "stat", <<p>>)
Vfs_cp(n, p, q) == n \in VfsNodes /\ Invoke(n, "cp", <<p, q>>)
Vfs_mv(n, p, q) == n \in VfsNodes /\ Invoke(n, "mv", <<p, q>>)

VfsNext ==
    \/ \E n \in VfsNodes : Vfs_mkfs(n)
    \/ \E n \in VfsNodes, p \in VfsPaths : Vfs_cd(n, p)
    \/ \E n \in VfsNodes, p \in VfsPaths : Vfs_ls(n, p)
    \/ \E n \in VfsNodes, p \in VfsPaths : Vfs_cat(n, p)
    \/ \E n \in VfsNodes, p \in VfsPaths : Vfs_mkdir(n, p)
    \/ \E n \in VfsNodes, p \in VfsPaths, force \in BOOLEAN : Vfs_rmdir(n, p, force)
    \/ \E n \in VfsNodes, p \in VfsPaths : Vfs_touch(n, p)
    \/ \E n \in VfsNodes, p \in VfsPaths, data \in {"", "x"} : Vfs_tee(n, p, data)
    \/ \E n \in VfsNodes, p \in VfsPaths : Vfs_rm(n, p)
    \/ \E n \in VfsNodes, p \in VfsPaths : Vfs_stat(n, p)
    \/ \E n \in VfsNodes, p \in VfsPaths, q \in VfsDsts : Vfs_cp(n, p, q)
    \/ \E n \in VfsNodes, p \in VfsPaths, q \in VfsDsts : Vfs_mv(n, p, q)

VfsSpec == VfsInit /\ [][VfsNext]_vars

\* ------------------------------------------------------ the wire codec
\* A str or a bytes value is the sequence of its bytes; NUL stands for
\* b'\0'.  A decoded item keeps its python type with its content.
MaxBodyLen == 4
NUL == "NUL"
Bytes == {"a", " ", NUL, "!"}
Bodies == UNION {[1..k -> Bytes] : k \in 0..MaxBodyLen}

PyStr(s) == [t |-> "str", s |-> s, i |-> 0]
PyBytes(s) == [t |-> "bytes", s |-> s, i |-> 0]
PyInt(i) == [t |-> "int", s |-> <<>>, i |-> i]
PyBool(b) == [t |-> "bool", s |-> <<>>, i |-> IF b THEN 1 ELSE 0]

Returned(ret) == [exc |-> "none", ret |-> ret]
Raised(e) == [exc |-> e, ret |-> <<>>]

\* The position at which `for b in it` breaks: the first space or NUL byte;
\* 0 when the loop runs to its else clause.
FirstStop(body) ==
    IF \E k \in DOMAIN body : body[k] \in {" ", NUL}
    THEN CHOOSE k \in DOMAIN body :
            /\ body[k] \in {" ", NUL}
            /\ \A j \in 1..(k - 1) : body[j] \notin {" ", NUL}
    ELSE 0

\* util.deserialize.  After a space, next(it) on an exhausted iterator
\* raises StopIteration, and the branch of a "!" calls the undefined name
\* nnext before anything else.
deserialize(body) ==
    LET k == FirstStop(body)
        path == SubSeq(body, 1, k - 1)
        rest == SubSeq(body, k + 1, Len(body))
    IN IF k = 0 THEN Returned(IF body = <<>> THEN <<>> ELSE <<PyStr(body)>>)
       ELSE IF body[k] = NUL THEN Returned(<<PyStr(path), PyBytes(rest)>>)
       ELSE IF rest = <<>> THEN Raised("StopIteration")
       ELSE IF rest[1] = "!" THEN Raised("NameError")
       ELSE Returned(<<PyStr(path), PyStr(rest)>>)

\* HttpDataNode.rmdir and HttpNameNode.rmdir: data = path + ('!' if force else '')
rmdir_data(path, force) == IF force THEN path \o <<"!">> ELSE path
\* HttpDataNode.tee: path.encode('utf-8') + b'\0' + data
tee_data(path, data) == path \o <<NUL>> \o data

\* The paths and blobs the clients send.
WirePaths == {p \in Bodies : Len(p) \in 1..2 /\ \A k \in DOMAIN p : p[k] \notin {" ", NUL}}
Blobs == {b \in Bodies : Len(b) <= 2}

CodecRest == UNCHANGED <<records, disk, up, dn, hb, stop, fan, same, joins, ops, flips, ticks, lock, th, svc, hung>>

CodecInit ==
    /\ records = <<>> /\ disk = <<>> /\ dn = Formatted(0)
    /\ up = DataNodes /\ hb = NoScan /\ stop = FALSE /\ fan = Idle /\ same = {}
    /\ joins = 0 /\ ops = 0 /\ flips = 0 /\ ticks = 0
    /\ lock = NoLock /\ th = NoThreads /\ call = NoCall /\ svc = NoService /\ hung = {}

\* The receiving side decodes what the sender's method put on the wire.
Receive(fn, args, body) ==
    /\ call' = [on |-> "wire", fn |-> fn, args |-> args,
                ret |-> deserialize(body).ret, exc |-> deserialize(body).exc]
    /\ CodecRest

Codec_deserialize(body) == body \in Bodies /\ Receive("deserialize", <<body>>, body)
Codec_rmdir(path, force) ==
    /\ path \in WirePaths
    /\ Receive("rmdir", <<PyStr(path), PyBool(force)>>, rmdir_data(path, force))
Codec_tee(path, data) ==
    /\ path \in WirePaths
    /\ Receive("tee", <<PyStr(path), PyBytes(data)>>, tee_data(path, data))

\* ---------------------------------------------- serializers and decoders
MaxInt == 10
TAB == "TAB"
NL == "NL"
Whitespace == {" ", TAB, NL}
DigitChars == <<"0", "1", "2", "3", "4", "5", "6", "7", "8", "9">>

\* str(x) of an int: its decimal digits.
RECURSIVE Decimal(_)
Decimal(i) == IF i < 10 THEN <<DigitChars[i + 1]>> ELSE Decimal(i \div 10) \o <<DigitChars[(i % 10) + 1]>>
str(x) == IF x.t = "int" THEN Decimal(x.i) ELSE x.s

\* int(s) of a token without whitespace: the number of a run of digits,
\* ValueError otherwise.
IsDigit(c) == \E d \in DOMAIN DigitChars : DigitChars[d] = c
DigitValue(c) == (CHOOSE d \in DOMAIN DigitChars : DigitChars[d] = c) - 1
RECURSIVE Number(_)
Number(s) == IF s = <<>> THEN 0 ELSE Number(Front(s)) * 10 + DigitValue(Last(s))
int(s) ==
    IF s # <<>> /\ \A k \in DOMAIN s : IsDigit(s[k]) THEN Returned(PyInt(Number(s)))
    ELSE Raised("ValueError")

\* sep.join(items)
RECURSIVE str_join(_, _)
str_join(sep, items) ==
    IF items = <<>> THEN <<>>
    ELSE IF Len(items) = 1 THEN items[1]
    ELSE items[1] \o <<sep>> \o str_join(sep, Tail(items))

\* s.split(sep): every occurrence of a separator cuts, empty pieces are
\* kept, and the empty string gives one empty piece.
RECURSIVE Pieces(_, _)
Pieces(s, seps) ==
    IF \A k \in DOMAIN s : s[k] \notin seps THEN <<s>>
    ELSE LET k == CHOOSE k \in DOMAIN s : s[k] \in seps /\ \A j \in 1..(k - 1) : s[j] \notin seps
         IN <<SubSeq(s, 1, k - 1)>> \o Pieces(SubSeq(s, k + 1, Len(s)), seps)
split_sep(s, sep) == Pieces(s, {sep})
\* s.split(): runs of whitespace cut, no empty piece is kept.
split(s) == SelectSeq(Pieces(s, Whitespace), LAMBDA piece : piece # <<>>)

\* util.serialize of a tuple or a list: ' '.join(str(x) for x in iterator)
serialize(data) == str_join(" ", [k \in DOMAIN data |-> str(data[k])])
\* util.serialize_matrix
serialize_matrix(data) ==
    str_join(NL, [r \in DOMAIN data |-> str_join(TAB, [k \in DOMAIN data[r] |-> str(data[r][k])])])

\* util.deserialize_tuple: total, used, free = (int(x) for x in tmp.split())
deserialize_tuple(body) ==
    LET tmp == split(body) IN
    IF \E k \in DOMAIN tmp : k <= 3 /\ int(tmp[k]).exc # "none" THEN Raised("ValueError")
    ELSE IF Len(tmp) # 3 THEN Raised("ValueError")
    ELSE Returned([k \in 1..3 |-> int(tmp[k]).ret])

\* util.deserialize_list
deserialize_list(body) == Returned([k \in DOMAIN split(body) |-> PyStr(split(body)[k])])

\* util.deserialize_stat: tmp[0], int(tmp[1]), int(tmp[2])
deserialize_stat(body) ==
    LET tmp == split(body) IN
    IF Len(tmp) < 2 THEN Raised("IndexError")
    ELSE IF int(tmp[2]).exc # "none" THEN Raised("ValueError")
    ELSE IF Len(tmp) < 3 THEN Raised("IndexError")
    ELSE IF int(tmp[3]).exc # "none" THEN Raised("ValueError")
    ELSE Returned(<<PyStr(tmp[1]), int(tmp[2]).ret, int(tmp[3]).ret>>)

\* util.deserialize_matrix: [l.split('\t') for l in tmp.split('\n')]
deserialize_matrix(body) ==
    LET lines == split_sep(body, NL) IN
    Returned([r \in DOMAIN lines |->
                [k \in DOMAIN split_sep(lines[r], TAB) |-> PyStr(split_sep(lines[r], TAB)[k])]])

\* The values the operations return: DataNode.df, DataNode.stat,
\* DataNode.ls, NameNode.status and NameNode.df.
Ints == {PyInt(i) : i \in 0..MaxInt}
DfValues == {<<total, used, free>> : total \in Ints, used \in {PyInt(0), PyInt(MaxInt)}, free \in Ints}
StatPaths == {<<"/">>, <<"/", "d">>, <<"/", "b", " ", "c">>}
StatValues == {<<PyStr(path), size, mode>> : path \in StatPaths, size \in Ints, mode \in {PyInt(0), PyInt(MaxInt)}}
EntryNames == {<<"d">>, <<"f">>, <<"b", " ", "c">>}
LsValues == {<<>>} \cup {<<PyStr(a)>> : a \in EntryNames}
                \cup {<<PyStr(a), PyStr(b)>> : a, b \in EntryNames}
StatusRows == {<<PyStr(<<"a", "1">>), PyStr(status)>> :
                  status \in {<<"n", "e", "w">>, <<"a", "l", "i", "v", "e">>, <<"d", "e", "a", "d">>}}
                \cup {<<PyStr(<<"b", "2">>), PyStr(<<"a", "l", "i", "v", "e">>)>>}
DfRows == {<<PyStr(<<"a", "1">>), total, PyInt(0), total>> : total \in {PyInt(0), PyInt(MaxInt)}}
Matrices(rows) == {<<>>} \cup {<<r>> : r \in rows} \cup {<<r, q>> : r, q \in rows}

\* The caller decodes what the handler's serializer put in the response.
Respond(fn, value, decoded) ==
    /\ call' = [on |-> "wire", fn |-> fn, args |-> <<value>>, ret |-> decoded.ret, exc |-> decoded.exc]
    /\ CodecRest

Codec_df(value) == value \in DfValues /\ Respond("df", value, deserialize_tuple(serialize(value)))
Codec_stat(value) == value \in StatValues /\ Respond("stat", value, deserialize_stat(serialize(value)))
Codec_ls(value) == value \in LsValues /\ Respond("ls", value, deserialize_list(serialize(value)))
Codec_status(value) ==
    /\ value \in Matrices(StatusRows)
    /\ Respond("status", value, deserialize_matrix(serialize_matrix(value)))
Codec_nn_df(value) ==
    /\ value \in Matrices(DfRows)
    /\ Respond("nn_df", value, deserialize_matrix(serialize_matrix(value)))

\* ------------------------------------------------------- the join body
\* The bytes of the join handshake.  A host or a public url that is not
\* configured is None or '' in the code, the empty sequence here.
PyNone == [t |-> "none", s |-> <<>>, i |-> 0]
Http == <<"h", "t", "t", "p", ":", "/", "/">>
Ports == {<<"8", "0">>, <<"8", "1", "8", "0">>}
Hosts == {<<>>, <<"h", "1">>, <<"1", "0", ".", "0", ".", "0", ".", "2">>}
PublicUrls == {<<>>, Http \o <<"p", "3", "/">>, Http \o <<"p", ":", "8", "0", "/">>}
JoinIds == {<<"a", "1">>, <<"b", "2">>}
SourceIps == {<<"1", "0", ".", "0", ".", "0", ".", "1">>, <<"1", "0", ".", "0", ".", "0", ".", "5">>}

\* DataNode.join_namespace: the data it posts to /nodes/join
join_namespace_data(advertise_port, advertise_host, public_url, id) ==
    LET data == advertise_port \o <<" ">> \o id
        hosted == IF advertise_host # <<>> THEN advertise_host \o <<":">> \o data ELSE data
    IN IF public_url # <<>> THEN public_url \o <<" ">> \o hosted ELSE hosted

\* util.deserialize_join read byte by byte, with remote_ip fixed as the host.
deserialize_join_remote(body, remote_ip) ==
    LET tmp == split_sep(body, " ") IN
    IF Len(tmp) < 2 \/ Len(tmp) > 3 THEN Raised("ValueError")
    ELSE LET port == split_sep(tmp[Len(tmp) - 1], ":") IN
         Returned(<<IF Len(tmp) > 2 THEN PyStr(tmp[1]) ELSE PyNone,
                    PyStr(Http \o remote_ip \o <<":">> \o port[Len(port)] \o <<"/">>),
                    PyStr(tmp[Len(tmp)])>>)

\* util.deserialize_join read byte by byte: split(' ') gives two or three
\* tokens, and a port token holding ':' is split into host and port.
deserialize_join_body(body, remote_ip) ==
    LET tmp == split_sep(body, " ") IN
    IF Len(tmp) < 2 \/ Len(tmp) > 3 THEN Raised("ValueError")
    ELSE LET public_url == IF Len(tmp) > 2 THEN PyStr(tmp[1]) ELSE PyNone
             port == split_sep(tmp[Len(tmp) - 1], ":")
             id == tmp[Len(tmp)]
         IN IF Len(port) > 2 THEN Raised("ValueError")
            ELSE Returned(<<public_url,
                            PyStr(Http \o (IF Len(port) = 2 THEN port[1] ELSE remote_ip)
                                       \o <<":">> \o port[Len(port)] \o <<"/">>),
                            PyStr(id)>>)

\* POST /nodes/join: the name node decodes the body the data node built.
Codec_join(advertise_port, advertise_host, public_url, id, remote_ip) ==
    LET body == join_namespace_data(advertise_port, advertise_host, public_url, id)
        decoded == deserialize_join_body(body, remote_ip)
    IN /\ call' = [on |-> "wire", fn |-> "join",
                   args |-> <<advertise_port, advertise_host, public_url, id, remote_ip, body>>,
                   ret |-> decoded.ret, exc |-> decoded.exc]
       /\ CodecRest

CodecNext ==
    \/ \E body \in Bodies : Codec_deserialize(body)
    \/ \E path \in WirePaths, force \in BOOLEAN : Codec_rmdir(path, force)
    \/ \E path \in WirePaths, data \in Blobs : Codec_tee(path, data)
    \/ \E value \in DfValues : Codec_df(value)
    \/ \E value \in StatValues : Codec_stat(value)
    \/ \E value \in LsValues : Codec_ls(value)
    \/ \E value \in Matrices(StatusRows) : Codec_status(value)
    \/ \E value \in Matrices(DfRows) : Codec_nn_df(value)
    \/ \E advertise_port \in Ports, advertise_host \in Hosts, public_url \in PublicUrls,
          id \in JoinIds, remote_ip \in SourceIps :
            Codec_join(advertise_port, advertise_host, public_url, id, remote_ip)

CodecSpec == CodecInit /\ [][CodecNext]_vars

\* ------------------------------------------- the data node's membership
\* The name-node URLs a data node is given, the ports it is started with and
\* the ids gen_id draws.
NamenodeUrls == {"http://nn:8000/", "http://other:9000/", "nn:8000"}
SvcPorts == {None, "8180"}
GenIds == {"92c5b3", "1f81c3", "k3x0ab"}

\* urlparse(url).netloc
netloc(url) ==
    CASE url = "http://nn:8000/" -> "nn:8000"
      [] url = "http://other:9000/" -> "other:9000"
      [] OTHER -> ""

\* A join that remembers the URL before it posts.
DataNode_join_namespace_early(self, namenode_url, posted) ==
    IF self.namenode_url # None THEN [exc |-> "CommandError", self |-> self]
    ELSE IF netloc(namenode_url) = "" THEN [exc |-> "CommandError", self |-> self]
    ELSE IF ~posted THEN [exc |-> "URLError", self |-> [self EXCEPT !.namenode_url = namenode_url]]
    ELSE [exc |-> "none",
          self |-> [self EXCEPT !.namenode_url = namenode_url, !.posts = @ + 1]]

\* DataNode.join_namespace on the instance self; posted tells whether the
\* POST to /nodes/join is answered (URLError or HTTPError otherwise).
DataNode_join_namespace(self, namenode_url, posted) ==
    IF self.namenode_url # None THEN [exc |-> "CommandError", self |-> self]
    ELSE IF netloc(namenode_url) = "" THEN [exc |-> "CommandError", self |-> self]
    ELSE IF ~posted THEN [exc |-> "URLError", self |-> self]
    ELSE [exc |-> "none",
          self |-> [self EXCEPT !.namenode_url = namenode_url, !.posts = @ + 1]]

\* DataNode.leave_namespace: a member is refused; for a node that remembers
\* no name node urljoin(None, '/nodes/leave') is the bare path, which
\* urlopen refuses with ValueError, outside the except clause.
DataNode_leave_namespace(self) ==
    IF self.namenode_url # None THEN [exc |-> "CommandError", self |-> self]
    ELSE [exc |-> "ValueError", self |-> self]

\* DataNode.__init__ over the process state self (its state file is what
\* earlier starts left).  An existing state file is split into id and
\* namenode_url; otherwise the id is drawn, the node joins when a
\* namenode_url is configured, and the state file is written: the id and
\* the newline land in the file before f.write(None) raises.
DataNode_init(self, namenode_url, port, id, posted) ==
    LET blank == [self EXCEPT !.id = None, !.namenode_url = None]
        fresh == [blank EXCEPT !.id = id]
        joined == DataNode_join_namespace(fresh, namenode_url, posted)
    IN IF self.state_file # <<>>
       THEN IF Len(self.state_file) # 2 THEN [exc |-> "ValueError", self |-> blank]
            ELSE [exc |-> "none",
                  self |-> [blank EXCEPT !.id = self.state_file[1],
                                         !.namenode_url = self.state_file[2]]]
       ELSE IF namenode_url # None
       THEN IF port = None THEN [exc |-> "ValueError", self |-> fresh]
            ELSE IF joined.exc # "none" THEN joined
            ELSE [exc |-> "none",
                  self |-> [joined.self EXCEPT !.state_file = <<id, joined.self.namenode_url>>]]
       ELSE [exc |-> "TypeError", self |-> [fresh EXCEPT !.state_file = <<id>>]]

SvcRest == UNCHANGED <<records, disk, up, dn, hb, stop, fan, same, joins, ops, flips, ticks, lock, th, hung>>

SvcInit ==
    /\ records = <<>> /\ disk = <<>> /\ dn = Formatted(0)
    /\ up = DataNodes /\ hb = NoScan /\ stop = FALSE /\ fan = Idle /\ same = {}
    /\ joins = 0 /\ ops = 0 /\ flips = 0 /\ ticks = 0
    /\ lock = NoLock /\ th = NoThreads /\ call = NoCall /\ svc = NoService /\ hung = {}

\* The outcome r of a call on the process: an instance runs after a
\* constructor that returned, and until the process stops.
Outcome(fn, args, r, run) ==
    /\ svc' = [r.self EXCEPT !.run = run]
    /\ call' = [on |-> "svc", fn |-> fn, args |-> args, ret |-> <<>>, exc |-> r.exc]
    /\ SvcRest

\* server.py / dfs.py construct the DataNode over the same fs_root.
Svc_start(namenode_url, port, id, posted) ==
    /\ ~svc.run
    /\ LET r == DataNode_init(svc, namenode_url, port, id, posted)
       IN Outcome("start", <<namenode_url, port>>, r, r.exc = "none")

Svc_join_namespace(namenode_url, posted) ==
    /\ svc.run
    /\ Outcome("join_namespace", <<namenode_url>>, DataNode_join_namespace(svc, namenode_url, posted), TRUE)

Svc_leave_namespace ==
    /\ svc.run
    /\ Outcome("leave_namespace", <<>>, DataNode_leave_namespace(svc), TRUE)

\* The process ends; the state file stays.
Svc_stop ==
    /\ svc.run
    /\ Outcome("stop", <<>>, [exc |-> "none", self |-> svc], FALSE)

SvcNext ==
    \/ \E namenode_url \in NamenodeUrls \cup {None}, port \in SvcPorts, id \in GenIds, posted \in BOOLEAN :
          Svc_start(namenode_url, port, id, posted)
    \/ \E namenode_url \in NamenodeUrls, posted \in BOOLEAN : Svc_join_namespace(namenode_url, posted)
    \/ Svc_leave_namespace
    \/ Svc_stop

SvcSpec == SvcInit /\ [][SvcNext]_vars

\* ------------------------------------------------------------------ claims
MutationOps == {Mutations[i].op : i \in DOMAIN Mutations}
FanOutDone == fan.pc = "done" /\ fan.op \in MutationOps
ReadDone == fan.pc = "done" /\ fan.op \in Reads
Called(id) == \E c \in DOMAIN fan.calls : fan.calls[c] = id
NoAlive(recs) == \A i \in DOMAIN recs : recs[i].status # ALIVE
PlaceIn(recs, id) == CHOOSE i \in DOMAIN recs : recs[i].id = id

\* C1: a failed call to one member of the ALIVE snapshot does not abort the
\* fan-out: when the request is done, the operation has been invoked on
\* every member of that snapshot.
C1_FailureDoesNotAbort ==
    FanOutDone => \A i \in DOMAIN fan.nodes : Called(fan.nodes[i].id)

\* C2: replicated write convergence: two members that had equal contents
\* when a mutation started, and that were ALIVE and answering during the
\* whole of it, have equal contents when it is done.
C2_Convergence ==
    FanOutDone =>
        \A pr \in same : \A a, b \in pr :
            Contents(records, dn, a) = Contents(records, dn, b)

\* C3: at the step in which the heartbeat commits DEAD -> ALIVE for a
\* member while another member is ALIVE, the member's contents equal those
\* of some other member that is ALIVE at that time (client mutations fan
\* out concurrently with the heartbeat).
C3_ResyncEqualsDonor ==
    [][\A id \in Ids(records) :
          (/\ StatusOf(records, id) = DEAD /\ StatusOf(records', id) = ALIVE
           /\ ~NoAlive(records)) =>
              \E d \in Ids(records) \ {id} :
                  /\ StatusOf(records, d) = ALIVE
                  /\ Contents(records', dn', id) = Contents(records', dn', d)]_vars

\* C4: when no peer call failed, the fan-out has invoked the operation once
\* on each member that was ALIVE in the table at the start of the request, in
\* the table's order, and on no member that was NEW or DEAD there.
C4_ExactlyAliveInOrder ==
    (FanOutDone /\ fan.exc = "none") =>
        /\ \A i \in DOMAIN fan.table :
              Called(fan.table[i].id) <=> fan.table[i].status = ALIVE
        /\ \A c \in DOMAIN fan.calls : fan.calls[c] \in Ids(fan.table)
        /\ \A c1, c2 \in DOMAIN fan.calls :
              c1 < c2 => PlaceIn(fan.table, fan.calls[c1]) < PlaceIn(fan.table, fan.calls[c2])

\* A fan-out over two ALIVE members, with a NEW or DEAD member in the table,
\* is done without a failure.
C4_Witness ==
    /\ FanOutDone /\ fan.exc = "none"
    /\ Len(fan.calls) >= 2
    /\ \E i \in DOMAIN fan.table : fan.table[i].status # ALIVE

\* C5: a read redirect answers the public_url of a member that is ALIVE at
\* the pick, joined with the operation path, whatever join form the member
\* used.
C5_RedirectToAlivePublicUrl ==
    (ReadDone /\ fan.exc = "none") =>
        /\ fan.node.status = ALIVE
        /\ fan.node.public_url \notin {None, ""}
        /\ fan.body = fan.node.public_url \o fan.op

\* C6: with no ALIVE member a read redirect fails as a command error
\* (CLUSTER_UNAVAILABLE), which the front end reports as 400 Bad Request.
C6_NoAliveIsCommandError ==
    (ReadDone /\ NoAlive(fan.table)) =>
        /\ fan.exc = "CommandError"
        /\ fan.status = "400 Bad Request"

\* C7: add_node with an id that is in the table leaves the table as it is;
\* with a new id it appends exactly one record, with status NEW.
C7_DuplicateRejected ==
    [][joins' # joins =>
          IF Ids(records') = Ids(records)
          THEN records' = records
          ELSE /\ Len(records') = Len(records) + 1
               /\ SubSeq(records', 1, Len(records)) = records
               /\ records'[Len(records')].status = NEW_]_vars

\* C8 as stated: when the donor is picked and no member is ALIVE, the pass is
\* abandoned and the member's status stays what it was.
C8_NoDonorLeavesStatus ==
    [][(hb.pc = "pick" /\ hb' # hb /\ NoAlive(records)) =>
          StatusOf(records', M.id) = StatusOf(records, M.id)]_vars

\* C8 as amended: when the donor is picked and no member is ALIVE, the
\* snapshot transfer and the cd are skipped (no data node changes), the
\* member's status is set to ALIVE in that same pass, and the scan goes on
\* with the next member.
C8_NoDonorCommitsAlive ==
    [][(hb.pc = "pick" /\ hb' # hb /\ NoAlive(records)) =>
          /\ StatusOf(records', M.id) = ALIVE
          /\ dn' = dn
          /\ hb'.pc = "member" /\ hb'.i = hb.i + 1]_vars

\* The heartbeat has just initialized a returning DEAD member without a
\* donor: the member is ALIVE and its root is as mkfs left it.
C8_Witness ==
    /\ hb.pc = "member" /\ hb.exc = "IndexError"
    /\ hb.members[hb.i - 1].status = DEAD
    /\ StatusOf(records, hb.members[hb.i - 1].id) = ALIVE
    /\ LET n == NodeAt(hb.members[hb.i - 1].url) IN dn[n].tree = (FsRoot(n) :> DirEntry)

\* C9: when the sync, the donor's stat or the cd of an initialize step
\* fails, the member's status stays NEW or DEAD and the worker goes on, so
\* that the member is initialized again on a later tick.
C9_FailedTransferKeepsStatus ==
    [][(hb.pc \in {"sync", "stat", "cd"} /\ hb' # hb /\ hb'.exc # "none") =>
          /\ StatusOf(records', M.id) \in {NEW_, DEAD}
          /\ hb'.pc # "crashed"]_vars

\* C10: no failure of a peer call ends the heartbeat worker: the worker ends
\* only by returning after the stop signal is set.
C10_WorkerSurvivesPeerFailures ==
    /\ hb.pc # "crashed"
    /\ hb.pc = "returned" => stop

\* C11: an ALIVE member that stops answering is eventually given status DEAD
\* by the heartbeat, whatever the state of the other members.  Only the
\* heartbeat worker sets DEAD, so the worker has not ended while a member
\* with status ALIVE does not answer.
C11_UnreachableAliveIsStillWatched ==
    hb.pc = "crashed" =>
        \A id \in Ids(records) :
            StatusOf(records, id) = ALIVE => NodeAt(UrlOf(records, id)) \in up

\* C12: after every completed create, update or handle setter the file
\* holds the table, and opening the store from the file yields the records
\* of the table, also those created without a public_url.
C12_ReopenYieldsSameRecords == MemberDB_init(disk) = records

\* C13: each store operation is atomic with respect to the others.  A thread
\* inside a with block owns the lock, once per method it is in; a filter or
\* a get reads a table whose last mutation has been flushed whole; two
\* threads are never both between sync's open and the end of its write; and
\* the thread that owns the lock never waits for it (setter -> update ->
\* sync).
Inside(t) == th[t].pc \in {"body", "write", "unlock"}
Flushing(t) == th[t].stack # <<>> /\ Top(t) = "sync" /\ th[t].pc \in {"body", "write"}
C13_StoreOperationsAtomic ==
    /\ \A t \in Threads : Inside(t) => lock.owner = t /\ lock.count = Len(th[t].stack)
    /\ \A t \in Threads :
          (Inside(t) /\ Top(t) \in {"filter", "get"}) => disk = MemberDB_sync(records)
    /\ \A t, u \in Threads : (Flushing(t) /\ Flushing(u)) => t = u
    /\ \A t \in Threads : (th[t].pc = "lock" /\ lock.owner = t) => RLock_acquire(lock, t)

\* The heartbeat is in sync under the setter and update, holding the lock
\* three times, with the file open and empty, while the dispatcher waits to
\* filter.
C13_Witness ==
    /\ lock = [owner |-> "heartbeat", count |-> 3]
    /\ th["heartbeat"].stack = <<"status", "update", "sync">> /\ th["heartbeat"].pc = "write"
    /\ th["dispatcher"].stack = <<"filter">> /\ th["dispatcher"].pc = "lock"

\* C14: root confinement.  For every logical path, absolute or relative,
\* with "." and ".." segments, and every workdir a cd has left, the host
\* path the resolver computes has fs_root as a prefix; and every entry of
\* the node's tree lies under fs_root.
C14_RootConfinement ==
    \A n \in VfsNodes :
        /\ \A p \in VfsPaths : IsPrefix(FsRoot(n), _path_to_fs(n, dn[n], p))
        /\ \A q \in DOMAIN dn[n].tree : IsPrefix(FsRoot(n), q)

\* From workdir /d, cd "../.." has succeeded and left the node at its root.
C14_Witness ==
    /\ call.fn = "cd" /\ call.exc = "none"
    /\ call.args = <<Rel(<<"..", "..">>)>>
    /\ dn[call.on].workdir = <<>>
    /\ IsDir(dn[call.on].tree, FsRoot(call.on) \o <<"d">>)

\* C15: rmdir of a path that resolves to the root fails, with or without
\* force, and leaves the node as it was; mkfs succeeds in every state,
\* leaves an empty root and resets workdir to "/".
C15_RootKeptAndMkfsSucceeds ==
    [][\A n \in VfsNodes :
          /\ (ops' # ops /\ call'.fn = "rmdir"
                /\ _path_to_fs(n, dn[n], call'.args[1]) = FsRoot(n)) =>
                (call'.exc # "none" /\ dn' = dn)
          /\ (ops' # ops /\ call'.fn = "mkfs") =>
                (call'.exc = "none" /\ dn'[n] = NodeState(FsRoot(n) :> DirEntry, <<>>))]_vars

\* C16: the force flag of rmdir survives the wire: the body a client's
\* rmdir(path, force=True) sends is decoded by the receiving side to
\* (path, True).
C16_ForceSurvivesWire ==
    (call.fn = "rmdir" /\ call.args[2] = PyBool(TRUE)) =>
        (call.exc = "none" /\ call.ret = <<call.args[1], PyBool(TRUE)>>)

\* C17: the generic decoder chooses its branch by the first space or NUL
\* byte alone: the empty body gives (), a body with neither byte gives
\* (path,), a first NUL gives (path, blob) with blob every remaining byte,
\* a first space followed by text gives (first, rest) with rest the whole
\* remainder (the remainder "!" alone is the force flag, not text).
C17_BranchByFirstTerminator ==
    call.fn = "deserialize" =>
        LET body == call.args[1]
            k == FirstStop(body)
            first == SubSeq(body, 1, k - 1)
            rest == SubSeq(body, k + 1, Len(body))
            expected == IF k = 0 THEN (IF body = <<>> THEN <<>> ELSE <<PyStr(body)>>)
                        ELSE IF body[k] = NUL THEN <<PyStr(first), PyBytes(rest)>>
                        ELSE <<PyStr(first), PyStr(rest)>>
        IN (k = 0 \/ body[k] = NUL \/ rest \notin {<<>>, <<"!">>}) =>
              (call.exc = "none" /\ call.ret = expected)

\* C18: for every request body, truncated ones included, the generic
\* decoder ends in a decoded tuple or in a decode error reported to the
\* client (CommandError), never in another exception.
C18_DecoderNeverFailsInternally ==
    call.fn \in {"deserialize", "rmdir", "tee"} => call.exc \in {"none", "CommandError"}

\* C19: codec round trip: for every value an operation returns (a df triple,
\* a stat triple, an ls list, a status or df matrix, the empty list and the
\* empty matrix included), the matching decoder applied to the serializer's
\* output yields the original value (a tuple and a list of the same items
\* count as the same value).
C19_CodecRoundTrip ==
    call.fn \in {"df", "stat", "ls", "status", "nn_df"} =>
        (call.exc = "none" /\ call.ret = call.args[1])

\* C20: join decoding: the body "port id" decodes to
\* (None, "http://{source_ip}:{port}/", id), "host:port id" to the url
\* "http://{host}:{port}/", "public_url host:port id" also to that
\* public_url, and the body join_namespace builds from its port, advertise
\* host, public url and id decodes to exactly those values.
C20_JoinDecoding ==
    call.fn = "join" =>
        LET port == call.args[1]
            host == call.args[2]
            public_url == call.args[3]
            id == call.args[4]
            source_ip == call.args[5]
            body == call.args[6]
            url(h) == PyStr(Http \o h \o <<":">> \o port \o <<"/">>)
        IN /\ call.exc = "none"
           /\ body = port \o <<" ">> \o id => call.ret = <<PyNone, url(source_ip), PyStr(id)>>
           /\ body = host \o <<":">> \o port \o <<" ">> \o id => call.ret = <<PyNone, url(host), PyStr(id)>>
           /\ body = public_url \o <<" ">> \o host \o <<":">> \o port \o <<" ">> \o id =>
                 call.ret = <<PyStr(public_url), url(host), PyStr(id)>>
           /\ call.ret = <<IF public_url = <<>> THEN PyNone ELSE PyStr(public_url),
                           url(IF host = <<>> THEN source_ip ELSE host),
                           PyStr(id)>>
\* Reached: a node without advertise host joined from 10.0.0.5 with the body
\* "8180 a1", and a node with a public url and a host joined.
C20_Witness ==
    /\ call.fn = "join"
    /\ call.args[6] = <<"8", "1", "8", "0", " ", "a", "1">>
    /\ call.args[5] = <<"1", "0", ".", "0", ".", "0", ".", "5">>
    /\ call.ret[2] = PyStr(Http \o <<"1", "0", ".", "0", ".", "0", ".", "5", ":", "8", "1", "8", "0", "/">>)

\* C21: join_namespace on a data node that remembers a name node is rejected
\* and leaves the remembered URL unchanged; a URL without a network
\* authority is rejected; if the POST fails the node remembers no name node;
\* only after a successful POST does the node remember the given URL.
C21_JoinNamespace ==
    [][(call'.on = "svc" /\ call'.fn \in {"start", "join_namespace"}
            /\ (call'.fn = "start" =>
                  (svc.state_file = <<>> /\ call'.args[1] # None /\ call'.args[2] # None))) =>
         LET given == call'.args[1] IN
         /\ (call'.fn = "join_namespace" /\ svc.namenode_url # None) =>
               (call'.exc = "CommandError" /\ svc'.namenode_url = svc.namenode_url)
         /\ netloc(given) = "" => call'.exc = "CommandError"
         /\ svc'.posts = svc.posts => svc'.namenode_url \in {None, svc.namenode_url}
         /\ svc'.namenode_url \notin {None, svc.namenode_url} =>
               (call'.exc = "none" /\ svc'.posts = svc.posts + 1 /\ svc'.namenode_url = given)
         /\ (call'.fn = "start" /\ call'.exc # "none") => svc'.namenode_url = None]_vars
\* Reached: a first start with a configured URL posted the join and remembers
\* the URL, and a later join_namespace on that member was refused.
C21_Witness ==
    /\ call.on = "svc" /\ call.fn = "join_namespace" /\ call.exc = "CommandError"
    /\ call.args = <<"http://other:9000/">>
    /\ svc.run /\ svc.namenode_url = "http://nn:8000/" /\ svc.posts = 1
    /\ svc.state_file = <<svc.id, "http://nn:8000/">>

\* C22: leave_namespace on a data node that is a member of a cluster ends
\* with the remembered name-node URL cleared and reports no error, whether
\* the notification succeeds or fails.
C22_LeaveClearsMembership ==
    [][(call'.on = "svc" /\ call'.fn = "leave_namespace" /\ svc.namenode_url # None) =>
          (call'.exc = "none" /\ svc'.namenode_url = None)]_vars

\* C23: identity survives restarts: a start over an fs_root that earlier
\* starts left a state file for succeeds with the id and the remembered
\* name-node URL the node had just before it stopped.
C23_IdentitySurvivesRestart ==
    [][(call'.on = "svc" /\ call'.fn = "start" /\ svc.state_file # <<>>) =>
          (/\ call'.exc = "none"
           /\ svc'.id = svc.id
           /\ svc'.namenode_url = svc.namenode_url)]_vars

C25_PeerCallsReturn ==
    /\ fan.pc = "fanout" => ENABLED FanCall
    /\ (Scanning /\ M.status # NEW_) => ENABLED HbPing

\* C26: every change of an existing member's status is made by the
\* heartbeat worker and is one of NEW -> ALIVE, ALIVE -> DEAD, DEAD -> ALIVE;
\* no dispatcher operation changes the status of an existing record, and
\* no record is ever deleted.
C26_StatusChangesByHeartbeatOnly ==
    [][\A id \in Ids(records) :
          /\ id \in Ids(records')
          /\ StatusOf(records', id) # StatusOf(records, id) =>
                /\ hb' # hb
                /\ <<StatusOf(records, id), StatusOf(records', id)>> \in
                      {<<NEW_, ALIVE>>, <<ALIVE, DEAD>>, <<DEAD, ALIVE>>}]_vars

\* C27: when the initialize of a NEW or returning DEAD member succeeds
\* (mkfs, sync, stat and cd all answered), the target's workdir equals the
\* donor's current workdir.
C27_WorkdirFollowsDonor ==
    [][(hb.pc = "cd" /\ hb'.pc = "member" /\ hb'.exc = "none") =>
          dn'[NodeAt(M.url)].workdir = dn'[NodeAt(hb.donor.url)].workdir]_vars

\* C28: cd(path) on a data node sets workdir to the normalized absolute
\* logical path of the target when the target exists and is a directory; when
\* the target does not exist or is not a directory the call fails with
\* CommandError ("does not exist", "is not a dir") and workdir is unchanged;
\* the tree is never changed; and in every state workdir is an absolute
\* logical path in normal form (no ".", no "..", no empty segment).
C28_CdContract ==
    /\ [][(call'.fn = "cd" /\ ops' = ops + 1) =>
            LET n == call'.on
                path == call'.args[1]
                target == normpath(IF path.abs THEN path.segs
                                   ELSE dn[n].workdir \o path.segs, <<>>)
                host == FsRoot(n) \o target
            IN /\ IsDir(dn[n].tree, host) =>
                    (call'.exc = "none" /\ dn'[n].workdir = target)
               /\ ~Exists(dn[n].tree, host) =>
                    /\ call'.exc = "CommandError" /\ call'.ret = <<"does not exist">>
                    /\ dn'[n].workdir = dn[n].workdir
               /\ IsFile(dn[n].tree, host) =>
                    /\ call'.exc = "CommandError" /\ call'.ret = <<"is not a dir">>
                    /\ dn'[n].workdir = dn[n].workdir
               /\ dn'[n].tree = dn[n].tree]_vars
    /\ [](\A n \in VfsNodes :
            /\ dn[n].workdir \in Seq(Names)
            /\ \A k \in DOMAIN dn[n].workdir : dn[n].workdir[k] \notin {".", "..", ""})

\* The node is in /d after cd ../d, asked from /d.
C28_Witness ==
    /\ call.on = "n1" /\ call.fn = "cd" /\ call.exc = "none"
    /\ call.args = <<Rel(<<"..", "d">>)>>
    /\ dn["n1"].workdir = <<"d">>
    /\ ops = MaxVfsOps

\* C29 (as stated): rmdir(path, force) on a directory that has entries with
\* force false fails with "is not empty" and changes nothing; on a missing
\* path it fails with "does not exist", on a file with "is not a dir";
\* otherwise (empty directory, or force true) the directory and everything
\* below it are removed and nothing else is changed.
C29_RmdirContract ==
    [][(call'.fn = "rmdir" /\ ops' = ops + 1) =>
        LET n == call'.on
            path == call'.args[1]
            force == call'.args[2]
            tree == dn[n].tree
            host == FsRoot(n) \o normpath(IF path.abs THEN path.segs
                                          ELSE dn[n].workdir \o path.segs, <<>>)
        IN /\ (IsDir(tree, host) /\ Listdir(tree, host) # {} /\ ~force) =>
                /\ call'.exc = "CommandError" /\ call'.ret = <<"is not empty">>
                /\ dn' = dn
           /\ ~Exists(tree, host) =>
                /\ call'.exc = "CommandError" /\ call'.ret = <<"does not exist">>
                /\ dn' = dn
           /\ IsFile(tree, host) =>
                /\ call'.exc = "CommandError" /\ call'.ret = <<"is not a dir">>
                /\ dn' = dn
           /\ (IsDir(tree, host) /\ (Listdir(tree, host) = {} \/ force)) =>
                /\ call'.exc = "none"
                /\ dn'[n].tree = Without(tree, Below(tree, host))
                /\ dn'[n].workdir = dn[n].workdir]_vars

\* C29 (amended): the same for every path but the root; on the root, which
\* exists and is a directory, rmdir fails with "Cannot remove root dir",
\* whatever it holds and whatever force is, and changes nothing.
C29_RmdirContractBelowRoot ==
    [][(call'.fn = "rmdir" /\ ops' = ops + 1) =>
        LET n == call'.on
            path == call'.args[1]
            force == call'.args[2]
            tree == dn[n].tree
            host == FsRoot(n) \o normpath(IF path.abs THEN path.segs
                                          ELSE dn[n].workdir \o path.segs, <<>>)
        IN /\ (IsDir(tree, host) /\ host = FsRoot(n)) =>
                /\ call'.exc = "CommandError" /\ call'.ret = <<"Cannot remove root dir">>
                /\ dn' = dn
           /\ (IsDir(tree, host) /\ host # FsRoot(n) /\ Listdir(tree, host) # {} /\ ~force) =>
                /\ call'.exc = "CommandError" /\ call'.ret = <<"is not empty">>
                /\ dn' = dn
           /\ ~Exists(tree, host) =>
                /\ call'.exc = "CommandError" /\ call'.ret = <<"does not exist">>
                /\ dn' = dn
           /\ IsFile(tree, host) =>
                /\ call'.exc = "CommandError" /\ call'.ret = <<"is not a dir">>
                /\ dn' = dn
           /\ (IsDir(tree, host) /\ host # FsRoot(n) /\ (Listdir(tree, host) = {} \/ force)) =>
                /\ call'.exc = "none"
                /\ dn'[n].tree = Without(tree, Below(tree, host))
                /\ dn'[n].workdir = dn[n].workdir]_vars

\* rmdir("d", force) has removed /d and the file it held.
C29_Witness ==
    /\ call.on = "n1" /\ call.fn = "rmdir" /\ call.exc = "none"
    /\ call.args = <<Rel(<<"d">>), TRUE>>
    /\ DOMAIN dn["n1"].tree = {FsRoot("n1")}
    /\ ops = MaxVfsOps

\* C30: in the two-field form of the generic decoder, a body whose bytes
\* after the first space are exactly "!" decodes to (path, True); a body
\* whose second field starts with "!" and has further bytes decodes to
\* (path, the whole second field, its "!" included).
C30_BangAfterSpace ==
    call.fn = "deserialize" =>
        LET body == call.args[1]
            k == FirstStop(body)
            path == SubSeq(body, 1, k - 1)
            second == SubSeq(body, k + 1, Len(body))
        IN (k # 0 /\ body[k] = " " /\ second # <<>> /\ second[1] = "!") =>
              /\ call.exc = "none"
              /\ call.ret = <<PyStr(path), IF Len(second) = 1 THEN PyBool(TRUE) ELSE PyStr(second)>>

\* C31: re-initialization never destroys the last copy of the data: when the
\* heartbeat wipes a member's storage (mkfs), every file the member held is
\* held, with the same content, by an ALIVE member on another node, from
\* which it can be restored.
C31_WipeKeepsACopy ==
    [][(hb.pc \in {"member", "mkfs"} /\ hb'.pc = "pick") =>
        LET n == NodeAt(M.url)
            wiped == package(n, dn[n].tree)
        IN \A rel \in DOMAIN wiped :
              wiped[rel].kind = "file" =>
                 \E j \in DOMAIN records :
                    /\ records[j].status = ALIVE
                    /\ NodeAt(records[j].url) # n
                    /\ LET copy == package(NodeAt(records[j].url), dn[NodeAt(records[j].url)].tree)
                       IN rel \in DOMAIN copy /\ copy[rel] = wiped[rel]]_vars

\* C32: a status commit through a member handle changes only the status
\* field of that member: the url and public_url stored for every id are the
\* same before and after the update, and no other member's status changes,
\* also when the id was registered again after the handle was made.
C32_CommitChangesStatusOnly ==
    [][\A t \in Threads :
          (th[t].pc = "body" /\ th[t].stack # <<>> /\ Top(t) = "update" /\ th'[t] # th[t]) =>
              /\ DOMAIN records' = DOMAIN records
              /\ \A i \in DOMAIN records :
                    /\ records'[i].id = records[i].id
                    /\ records'[i].url = records[i].url
                    /\ records'[i].public_url = records[i].public_url
                    /\ records[i].id # th[t].arg.id => records'[i].status = records[i].status]_vars

\* C33: bootstrap liveness: in a cluster whose members are all NEW and
\* reachable, so that no ALIVE donor exists yet, every member eventually
\* has status ALIVE (the heartbeat being scheduled fairly).
C33_BootstrapLiveness ==
    (/\ records # <<>>
     /\ \A i \in DOMAIN records : records[i].status = NEW_
     /\ \A i \in DOMAIN records : NodeAt(records[i].url) \in up)
        ~> (\A i \in DOMAIN records : records[i].status = ALIVE)

\* C34: after any sequence of operations on a formatted data node, workdir
\* names a directory that exists under fs_root.
C34_WorkdirExists ==
    \A n \in VfsNodes :
        IsDir(dn[n].tree, FsRoot(n)) => IsDir(dn[n].tree, FsRoot(n) \o dn[n].workdir)

\* C35: every operation on a data node that ends in a command error (cd, ls,
\* mkdir, rmdir, cat, rm, stat, cp, mv on a path that violates the
\* operation's precondition) leaves the tree, the content of every file and
\* workdir exactly as they were before the call.
C35_CommandErrorChangesNothing ==
    [][(ops' = ops + 1 /\ call'.exc = "CommandError") =>
          /\ call'.fn \in {"cd", "ls", "mkdir", "rmdir", "cat", "rm", "stat", "cp", "mv"}
          /\ dn' = dn]_vars

\* rmdir("d") without force has been refused: /d holds the file written by
\* the call before.
C35_Witness ==
    /\ call.on = "n1" /\ call.fn = "rmdir" /\ call.exc = "CommandError"
    /\ call.ret = <<"is not empty">>
    /\ IsFile(dn["n1"].tree, FsRoot("n1") \o <<"d", "f">>)
    /\ ops = MaxVfsOps

====
